---- MODULE Spec2Model ----
(***************************************************************************)
(* Verification model of the algebra visualizers of afragop72/maths.       *)
(*                                                                         *)
(* Every page of the repository is an independent single-page program; a   *)
(* behaviour of this model is one browser session on one page.  `page`     *)
(* names the page that was loaded, and the React state variables that      *)
(* several pages declare under the same name (a, b, c, step, bin1, bin2)   *)
(* are shared, since only one page runs in a behaviour.                    *)
(*                                                                         *)
(*   SpecIneq    quadratic inequality solver   (app.js 1953-3333)          *)
(*   SpecCts     completing the square         (completing-the-square)     *)
(*   SpecWalk    either of the two above                                   *)
(*   SpecFoil    FOIL visualizer with Play/Pause (sketch-binomial-factors) *)
(*   SpecFoilLive  the same, with the interval timer firing                *)
(*   SpecFoilPages the two FOIL visualizers                                *)
(*   SpecStudio  Quadratic Graph Studio        (app.js 1-1347)             *)
(***************************************************************************)
EXTENDS Integers, Sequences, FiniteSets, TLC

VARIABLES
    page,       \* which program of the repository runs in this session
    a, b, c,    \* useState: the coefficient fields of the React pages
    ineqType,   \* useState: inequality solver, one of INEQ_TYPES
    step,       \* useState: the walkthrough step of the React pages
    bin1, bin2, \* useState: FOIL visualizers, the two binomial texts
    playing,    \* useState: FOIL visualizer with Play/Pause
    speedMs,    \* useState: FOIL visualizer with Play/Pause
    timerRef,   \* useRef: the interval of the Play/Pause timer effect, or "null"
    userActive, \* environment: FALSE once the user does nothing further
    inputs,         \* Graph Studio: the text fields a, b, c, xMin, xMax
    sliders,        \* Graph Studio: the range inputs a, b, c
    autoZoomToggle, \* Graph Studio: the auto-zoom checkbox (.checked)
    invalid,        \* Graph Studio: which text fields carry class "invalid"
    hoverState,     \* Graph Studio: let hoverState
    animationState, \* Graph Studio: let animationState
    frames,         \* Graph Studio: requestAnimationFrame callbacks pending
    canvas,         \* Graph Studio: what the last draw put on the canvas
    ui,             \* Graph Studio: statistics, equation and table shown
    timestamp,      \* Graph Studio: time of the latest animation frame
    lastEvent,      \* Graph Studio: the latest user event
    events,         \* Graph Studio: how many user events there were
    app,            \* the App component's state on the other React pages
    call            \* a function of the program applied to arguments

walkVars == <<a, b, c, ineqType>>
foilVars == <<bin1, bin2, playing, speedMs, timerRef, userActive>>
studioVars == <<inputs, sliders, autoZoomToggle, invalid, hoverState,
                animationState, frames, canvas, ui, timestamp, lastEvent, events>>
toolVars == <<app, call>>
vars == <<page, step, walkVars, foilVars, studioVars, toolVars>>

(***************************************************************************)
(* Bounds of the model.                                                    *)
(***************************************************************************)
MaxCoef == 1        \* integers typed into a coefficient field: -MaxCoef..MaxCoef
MaxTiny == 1        \* tiny decimals typed into a field: k * 10^-7, 1 <= k <= MaxTiny
MaxX    == 3        \* sample points x = n/2 (and n * 10^-7 / 2), |n| <= MaxX

(***************************************************************************)
(* Numbers.  A JavaScript number is modelled exactly as a decimal          *)
(*     d[1] + d[2]*e + d[3]*e^2 + d[4]*e^3 + d[5]*e^4,   e = 10^-7,        *)
(* with small integer digits d[i] (|d[i]| far below 10^7), so that the     *)
(* sign of a number is the sign of its first non-zero digit.  Typed        *)
(* inputs have digits d[1], d[2] only; products of up to four of them are  *)
(* exact.  Arithmetic is that of the reals: rounding of doubles is not     *)
(* modelled, tolerances written in the code are.                           *)
(***************************************************************************)
Int2Num(k)  == <<k, 0, 0, 0, 0>>
Tiny(k)     == <<0, k, 0, 0, 0>>
Zero        == Int2Num(0)

NAdd(p, q)  == [i \in 1..5 |-> p[i] + q[i]]
NNeg(p)     == [i \in 1..5 |-> 0 - p[i]]
NSub(p, q)  == [i \in 1..5 |-> p[i] - q[i]]
NScale(k, p) == [i \in 1..5 |-> k * p[i]]
NMul(p, q)  ==
    <<p[1]*q[1],
      p[1]*q[2] + p[2]*q[1],
      p[1]*q[3] + p[2]*q[2] + p[3]*q[1],
      p[1]*q[4] + p[2]*q[3] + p[3]*q[2] + p[4]*q[1],
      p[1]*q[5] + p[2]*q[4] + p[3]*q[3] + p[4]*q[2] + p[5]*q[1]>>

SignInt(k)  == IF k > 0 THEN 1 ELSE IF k < 0 THEN -1 ELSE 0
NSign(p)    ==
    IF p[1] # 0 THEN SignInt(p[1])
    ELSE IF p[2] # 0 THEN SignInt(p[2])
    ELSE IF p[3] # 0 THEN SignInt(p[3])
    ELSE IF p[4] # 0 THEN SignInt(p[4])
    ELSE SignInt(p[5])
NAbs(p)     == IF NSign(p) < 0 THEN NNeg(p) ELSE p
NLess(p, q) == NSign(NSub(p, q)) < 0

(***************************************************************************)
(* A coefficient state of the React pages: CoefInput hands the handler     *)
(* either a finite number or one of the strings "" and "-".                *)
(***************************************************************************)
NumVal(p)   == [k |-> "num", s |-> "", v |-> p]
StrVal(t)   == [k |-> "str", s |-> t, v |-> Zero]

TypedNumbers ==
    {Int2Num(k) : k \in (0 - MaxCoef)..MaxCoef} \cup {Tiny(k) : k \in 1..MaxTiny}
\* what onChange passes on: "" or "-" as they are, a finite Number(v) otherwise
CoefInput == {StrVal(""), StrVal("-")} \cup {NumVal(p) : p \in TypedNumbers}
\* the completing-the-square page is exercised with integers
CTS_CoefInput ==
    {StrVal(""), StrVal("-")} \cup {NumVal(Int2Num(k)) : k \in (0 - MaxCoef)..MaxCoef}

\* const numA = typeof a === "number" ? a : 0;
numOf(x)    == IF x.k = "num" THEN x.v ELSE Zero
numA        == numOf(a)
numB        == numOf(b)
numC        == numOf(c)

\* the state of the pages that are not loaded keeps its initial value
ToolsNotLoaded ==
    /\ app = <<>> /\ call = <<>>
FoilNotLoaded ==
    /\ bin1 = <<>> /\ bin2 = <<>>
    /\ playing = FALSE /\ speedMs = 900 /\ timerRef = "null"
    /\ userActive = TRUE
StudioNotLoaded ==
    /\ inputs = <<>> /\ sliders = <<>> /\ autoZoomToggle = FALSE
    /\ invalid = {} /\ hoverState = <<>> /\ animationState = <<>>
    /\ frames = <<>> /\ canvas = <<>> /\ ui = <<>>
    /\ timestamp = 0 /\ lastEvent = "none" /\ events = 0

(***************************************************************************)
(* Quadratic inequality solver: math utilities.                            *)
(***************************************************************************)
QI_MAX_STEP == 6
INEQ_TYPES  == {">", ">=", "<", "<="}

QI_PRESETS ==
    { [a |-> 1,  b |-> -5, c |-> 6,  ineq |-> ">"],
      [a |-> -1, b |-> 0,  c |-> 4,  ineq |-> ">="],
      [a |-> 1,  b |-> 0,  c |-> 1,  ineq |-> "<"],
      [a |-> 1,  b |-> -6, c |-> 9,  ineq |-> "<="],
      [a |-> 2,  b |-> 3,  c |-> -2, ineq |-> ">="] }

\* the tolerance 1e-12 = 100 * (10^-7)^2
Tol1em12 == <<0, 0, 100, 0, 0>>

\* b * b - 4 * a * c
getDiscriminant(qa, qb, qc) == NSub(NMul(qb, qb), NScale(4, NMul(qa, qc)))

\* A root (p + s*sqrt(D)) / q, s in {-1, 0, 1}, or an infinite endpoint
\* (inf = -1 or 1).  Square roots are kept symbolic, so comparisons are exact.
Root(p, s, D, q) == [inf |-> 0, p |-> p, s |-> s, D |-> D, q |-> q]
NegInfinity == [inf |-> -1, p |-> Zero, s |-> 0, D |-> Zero, q |-> Int2Num(1)]
PosInfinity == [inf |-> 1,  p |-> Zero, s |-> 0, D |-> Zero, q |-> Int2Num(1)]

\* x - y < 0 for the two roots of one quadratic (same p, D, q; D > 0)
RootLess(r, t) == (r.s - t.s) * NSign(r.q) < 0
\* [r1, r2].sort((x, y) => x - y)
SortPair(r1, r2) == IF RootLess(r2, r1) THEN <<r2, r1>> ELSE <<r1, r2>>

QI_getRoots(qa, qb, qc) ==
    IF NSign(qa) = 0
    THEN IF NSign(qb) = 0 THEN <<>>
         ELSE <<Root(NNeg(qc), 0, Zero, qb)>>
    ELSE LET disc == getDiscriminant(qa, qb, qc)
             r1   == Root(NNeg(qb), -1, disc, NScale(2, qa))
             r2   == Root(NNeg(qb), 1, disc, NScale(2, qa))
         IN  IF NSign(disc) < 0 THEN <<>>
             ELSE IF NLess(NAbs(disc), Tol1em12)
                  THEN <<Root(NNeg(qb), 0, Zero, NScale(2, qa))>>
                  ELSE SortPair(r1, r2)

isStrictInequality(t)  == t = ">" \/ t = "<"
isPositiveDirection(t) == t = ">" \/ t = ">="

Interval(from, to, fromOpen, toOpen) ==
    [from |-> from, to |-> to, fromOpen |-> fromOpen, toOpen |-> toOpen]
AllReals   == <<Interval(NegInfinity, PosInfinity, TRUE, TRUE)>>
Solution(iv, empty, degenerate, single) ==
    [intervals |-> iv, isEmpty |-> empty, isDegenerate |-> degenerate,
     isSinglePoint |-> single]

getSolution(qa, qb, qc, t, roots) ==
    LET strict == isStrictInequality(t)
        wantsPositive == isPositiveDirection(t)
        disc    == getDiscriminant(qa, qb, qc)
        opensUp == NSign(qa) > 0
        r       == roots[1]
        exceptR == <<Interval(NegInfinity, r, TRUE, TRUE),
                     Interval(r, PosInfinity, TRUE, TRUE)>>
        onlyR   == <<Interval(r, r, FALSE, FALSE)>>
    IN  IF NSign(qa) = 0 THEN Solution(<<>>, FALSE, TRUE, FALSE)
        ELSE IF NSign(disc) < 0
        THEN \* no real roots
             IF (wantsPositive /\ opensUp) \/ (~wantsPositive /\ ~opensUp)
             THEN Solution(AllReals, FALSE, FALSE, FALSE)
             ELSE Solution(<<>>, TRUE, FALSE, FALSE)
        ELSE IF Len(roots) = 1
        THEN \* one repeated root
             IF wantsPositive /\ opensUp
             THEN IF strict THEN Solution(exceptR, FALSE, FALSE, FALSE)
                  ELSE Solution(AllReals, FALSE, FALSE, FALSE)
             ELSE IF ~wantsPositive /\ opensUp
             THEN IF strict THEN Solution(<<>>, TRUE, FALSE, FALSE)
                  ELSE Solution(onlyR, FALSE, FALSE, TRUE)
             ELSE IF wantsPositive /\ ~opensUp
             THEN IF strict THEN Solution(<<>>, TRUE, FALSE, FALSE)
                  ELSE Solution(onlyR, FALSE, FALSE, TRUE)
             ELSE IF strict THEN Solution(exceptR, FALSE, FALSE, FALSE)
                  ELSE Solution(AllReals, FALSE, FALSE, FALSE)
        ELSE \* two distinct roots
             IF (wantsPositive /\ opensUp) \/ (~wantsPositive /\ ~opensUp)
             THEN Solution(<<Interval(NegInfinity, roots[1], TRUE, strict),
                             Interval(roots[2], PosInfinity, strict, TRUE)>>,
                           FALSE, FALSE, FALSE)
             ELSE Solution(<<Interval(roots[1], roots[2], strict, strict)>>,
                           FALSE, FALSE, FALSE)

(***************************************************************************)
(* Real-number semantics used to state claims: a sample point x = n/d      *)
(* (d > 0), its position relative to an endpoint, membership in a          *)
(* solution, and the sign of the quadratic at x.                           *)
(***************************************************************************)
Point(n, d) == [n |-> n, d |-> d]
SamplePoints ==
    {Point(Int2Num(n), d) : n \in (0 - MaxX)..MaxX, d \in {1, 2}}
    \cup {Point(Tiny(n), d) : n \in (0 - MaxX)..MaxX, d \in {1, 2}}

\* the sign of x - r
CmpPoint(x, r) ==
    IF r.inf # 0 THEN 0 - r.inf
    ELSE LET L  == NSub(NMul(r.q, x.n), NScale(x.d, r.p))
             dD == NScale(x.d * x.d, r.D)
             LL == NMul(L, L)
         IN  NSign(r.q) *
             ( IF r.s = 0 THEN NSign(L)
               ELSE IF r.s = 1
                    THEN IF NSign(L) <= 0 THEN -1 ELSE NSign(NSub(LL, dD))
                    ELSE IF NSign(L) >= 0 THEN 1 ELSE NSign(NSub(dD, LL)) )

InInterval(x, iv) ==
    LET lo == CmpPoint(x, iv.from)
        hi == CmpPoint(x, iv.to)
    IN  /\ lo > 0 \/ (lo = 0 /\ ~iv.fromOpen)
        /\ hi < 0 \/ (hi = 0 /\ ~iv.toOpen)

InSolution(x, sol) == \E i \in 1..Len(sol.intervals) : InInterval(x, sol.intervals[i])

\* the sign of a*x^2 + b*x + c at x = n/d
SignAt(qa, qb, qc, x) ==
    NSign(NAdd(NAdd(NMul(qa, NMul(x.n, x.n)),
                    NScale(x.d, NMul(qb, x.n))),
               NScale(x.d * x.d, qc)))

Satisfies(sgn, t) ==
    CASE t = ">"  -> sgn > 0
      [] t = ">=" -> sgn >= 0
      [] t = "<"  -> sgn < 0
      [] t = "<=" -> sgn <= 0

(***************************************************************************)
(* Quadratic inequality solver: the App component.                         *)
(***************************************************************************)
QI_roots    == QI_getRoots(numA, numB, numC)
QI_solution == getSolution(numA, numB, numC, ineqType, QI_roots)
\* mutant: the test made on the raw state, a string not counting as 0
QI_errorRawState == a.k = "num" /\ NSign(a.v) = 0
\* const error = useMemo(() => numA === 0 ? "Coefficient a must be ..." : null)
QI_error    == NSign(numA) = 0

\* ParabolaSvg: the progressive reveal (opacity of each <g>)
showAxes       == step >= 0
\* mutant: root markers revealed one step early
showRootsEarly == step >= 1
showRoots      == step >= 2
showCurve      == step >= 3
showVertex     == step >= 3
showTestPoints == step >= 4
showShading    == step >= 5

\* getStepContent: the labels "Step n of 7" of the seven entries, in order
QI_StepNumbers == <<1, 2, 3, 4, 5, 6, 7>>
QI_displayedStep == QI_StepNumbers[step + 1]

\* what App returns: the components in the rendered tree
QI_Rendered ==
    {"InputPanel"}
    \cup (IF QI_error THEN {"error-banner", "no-graph"}
          ELSE {"ParabolaSvg", "ExplanationPanel", "StepNav", "ExportFooter"}
               \cup (IF step >= 4 THEN {"NumberLine"} ELSE {})
               \cup (IF step >= QI_MAX_STEP THEN {"ResultCard"} ELSE {}))

QI_safeSetStep(next) ==
    step' = (IF (IF QI_MAX_STEP < next THEN QI_MAX_STEP ELSE next) < 0 THEN 0
             ELSE (IF QI_MAX_STEP < next THEN QI_MAX_STEP ELSE next))

QI_onAChange(v) ==
    /\ page = "inequality"
    /\ a' = v /\ step' = 0
    /\ UNCHANGED <<page, toolVars, studioVars, foilVars, b, c, ineqType>>
QI_onBChange(v) ==
    /\ page = "inequality"
    /\ b' = v /\ step' = 0
    /\ UNCHANGED <<page, toolVars, studioVars, foilVars, a, c, ineqType>>
QI_onCChange(v) ==
    /\ page = "inequality"
    /\ c' = v /\ step' = 0
    /\ UNCHANGED <<page, toolVars, studioVars, foilVars, a, b, ineqType>>
\* an inequality selector that leaves the walkthrough where it is
handleIneqChangeKeepStep(t) ==
    /\ page = "inequality"
    /\ ineqType' = t
    /\ UNCHANGED <<page, toolVars, studioVars, foilVars, a, b, c, step>>
handleIneqChange(t) ==
    /\ page = "inequality"
    /\ ineqType' = t /\ step' = 0
    /\ UNCHANGED <<page, toolVars, studioVars, foilVars, a, b, c>>
QI_handlePreset(p) ==
    /\ page = "inequality"
    /\ a' = NumVal(Int2Num(p.a)) /\ b' = NumVal(Int2Num(p.b))
    /\ c' = NumVal(Int2Num(p.c))
    /\ ineqType' = p.ineq /\ step' = 0
    /\ UNCHANGED <<page, toolVars, studioVars, foilVars>>
\* StepNav is rendered only when there is no error; Back and Next are
\* disabled at the ends.
QI_Back ==
    /\ page = "inequality" /\ "StepNav" \in QI_Rendered /\ step > 0
    /\ QI_safeSetStep(step - 1)
    /\ UNCHANGED <<page, toolVars, studioVars, foilVars, a, b, c, ineqType>>
QI_NextStep ==
    /\ page = "inequality" /\ "StepNav" \in QI_Rendered /\ step < QI_MAX_STEP
    /\ QI_safeSetStep(step + 1)
    /\ UNCHANGED <<page, toolVars, studioVars, foilVars, a, b, c, ineqType>>
QI_Dot(i) ==
    /\ page = "inequality" /\ "StepNav" \in QI_Rendered
    /\ QI_safeSetStep(i)
    /\ UNCHANGED <<page, toolVars, studioVars, foilVars, a, b, c, ineqType>>

InitIneq ==
    /\ page = "inequality"
    /\ FoilNotLoaded /\ StudioNotLoaded /\ ToolsNotLoaded
    /\ a = NumVal(Int2Num(1)) /\ b = NumVal(Int2Num(-5)) /\ c = NumVal(Int2Num(6))
    /\ ineqType = ">"
    /\ step = 0

NextIneq ==
    \/ \E v \in CoefInput : QI_onAChange(v)
    \/ \E v \in CoefInput : QI_onBChange(v)
    \/ \E v \in CoefInput : QI_onCChange(v)
    \/ \E t \in INEQ_TYPES : handleIneqChange(t)
    \/ \E p \in QI_PRESETS : QI_handlePreset(p)
    \/ QI_Back
    \/ QI_NextStep
    \/ \E i \in 0..QI_MAX_STEP : QI_Dot(i)

SpecIneq == InitIneq /\ [][NextIneq]_vars

(***************************************************************************)
(* Completing the square: the App component.                               *)
(***************************************************************************)
CTS_MAX_STEP == 6

CTS_PRESETS ==
    { [a |-> 1,  b |-> 6,  c |-> 5],
      [a |-> 1,  b |-> -4, c |-> 1],
      [a |-> 2,  b |-> 12, c |-> 7],
      [a |-> -1, b |-> 8,  c |-> -3],
      [a |-> 1,  b |-> 2,  c |-> 1] }

\* const error = numA === 0 ? "The leading coefficient a must be ..." : null
CTS_error == NSign(numA) = 0
\* cs = numA === 0 ? null : getCompletingSteps(numA, numB, numC)
CTS_hasSteps == NSign(numA) # 0

CTS_Rendered ==
    {"InputPanel"}
    \cup (IF CTS_error THEN {"error-banner"} ELSE {})
    \cup (IF ~CTS_error /\ CTS_hasSteps
          THEN {IF step < CTS_MAX_STEP THEN "AreaModelSvg" ELSE "MiniParabola",
                "ExplanationPanel", "StepNav", "ExportFooter"}
               \cup (IF step >= CTS_MAX_STEP THEN {"ResultCard"} ELSE {})
          ELSE IF ~CTS_error THEN {"no-graph"} ELSE {})

\* getStepContent: the headings of the array it indexes by step
CTS_headings ==
    << "State the Quadratic",
       "Factor Out the Leading Coefficient",
       "Identify the Linear Coefficient",
       "Find the Magic Number",
       "Complete the Square",
       "Rewrite in Vertex Form",
       "Verify with the Graph" >>
\* content = cs ? getStepContent(step, ...) : null; [...][step] || null
getStepContent(st) ==
    IF st + 1 \in DOMAIN CTS_headings THEN CTS_headings[st + 1] ELSE "null"
CTS_content == IF CTS_hasSteps THEN getStepContent(step) ELSE "null"

CTS_safeSetStep(s) ==
    step' = (IF (IF CTS_MAX_STEP < s THEN CTS_MAX_STEP ELSE s) < 0 THEN 0
             ELSE (IF CTS_MAX_STEP < s THEN CTS_MAX_STEP ELSE s))

CTS_onAChange(v) ==
    /\ page = "cts"
    /\ a' = v /\ step' = 0
    /\ UNCHANGED <<page, toolVars, studioVars, foilVars, b, c, ineqType>>
CTS_onBChange(v) ==
    /\ page = "cts"
    /\ b' = v /\ step' = 0
    /\ UNCHANGED <<page, toolVars, studioVars, foilVars, a, c, ineqType>>
CTS_onCChange(v) ==
    /\ page = "cts"
    /\ c' = v /\ step' = 0
    /\ UNCHANGED <<page, toolVars, studioVars, foilVars, a, b, ineqType>>
CTS_handlePreset(p) ==
    /\ page = "cts"
    /\ a' = NumVal(Int2Num(p.a)) /\ b' = NumVal(Int2Num(p.b))
    /\ c' = NumVal(Int2Num(p.c))
    /\ step' = 0
    /\ UNCHANGED <<page, toolVars, studioVars, foilVars, ineqType>>
CTS_Back ==
    /\ page = "cts" /\ "StepNav" \in CTS_Rendered /\ step > 0
    /\ CTS_safeSetStep(step - 1)
    /\ UNCHANGED <<page, toolVars, studioVars, foilVars, a, b, c, ineqType>>
CTS_NextStep ==
    /\ page = "cts" /\ "StepNav" \in CTS_Rendered /\ step < CTS_MAX_STEP
    /\ CTS_safeSetStep(step + 1)
    /\ UNCHANGED <<page, toolVars, studioVars, foilVars, a, b, c, ineqType>>
CTS_Dot(i) ==
    /\ page = "cts" /\ "StepNav" \in CTS_Rendered
    /\ CTS_safeSetStep(i)
    /\ UNCHANGED <<page, toolVars, studioVars, foilVars, a, b, c, ineqType>>

InitCts ==
    /\ page = "cts"
    /\ FoilNotLoaded /\ StudioNotLoaded /\ ToolsNotLoaded
    /\ a = NumVal(Int2Num(1)) /\ b = NumVal(Int2Num(6)) /\ c = NumVal(Int2Num(5))
    /\ ineqType = ">"
    /\ step = 0

NextCts ==
    \/ \E v \in CTS_CoefInput : CTS_onAChange(v)
    \/ \E v \in CTS_CoefInput : CTS_onBChange(v)
    \/ \E v \in CTS_CoefInput : CTS_onCChange(v)
    \/ \E p \in CTS_PRESETS : CTS_handlePreset(p)
    \/ CTS_Back
    \/ CTS_NextStep
    \/ \E i \in 0..CTS_MAX_STEP : CTS_Dot(i)

SpecCts == InitCts /\ [][NextCts]_vars

\* a session on either walkthrough page with coefficient fields
SpecWalk == (InitIneq \/ InitCts) /\ [][NextIneq \/ NextCts]_vars


(***************************************************************************)
(* FOIL visualizers: texts and parseLinearBinomial.  A text is a sequence  *)
(* of one-character strings.  The two pages (with Play/Pause, and with     *)
(* presets and step dots) share the parser and computeFoil word for word.  *)
(***************************************************************************)
FOIL_MAX_STEP == 5

Letters == {"x", "y", "t"}
Digits  == <<"0", "1", "2", "3", "4", "5", "6", "7", "8", "9">>
IsDigit(ch) == \E i \in 1..10 : Digits[i] = ch
DigitValue(ch) == (CHOOSE i \in 1..10 : Digits[i] = ch) - 1

\* /^[a-zA-Z]$/.test(ch), over the letters the model types
isValidVarChar(ch) == ch \in Letters

RECURSIVE TrimStart(_)
TrimStart(s) == IF s # <<>> /\ Head(s) = " " THEN TrimStart(Tail(s)) ELSE s
RECURSIVE TrimEnd(_)
TrimEnd(s) ==
    IF s # <<>> /\ s[Len(s)] = " " THEN TrimEnd(SubSeq(s, 1, Len(s) - 1)) ELSE s
Trim(s) == TrimEnd(TrimStart(s))

IsOpen(ch)  == ch = "("
IsClose(ch) == ch = ")"
\* depth after the first i characters
DepthAfter(t, i) ==
    Len(SelectSeq(SubSeq(t, 1, i), IsOpen)) - Len(SelectSeq(SubSeq(t, 1, i), IsClose))

trimOuterParens(s) ==
    LET t == Trim(s)
    IN  IF t # <<>> /\ t[1] = "(" /\ t[Len(t)] = ")"
        THEN IF \E i \in 1..(Len(t) - 1) : DepthAfter(t, i) = 0
             THEN t
             ELSE Trim(SubSeq(t, 2, Len(t) - 1))
        ELSE t

NotSpace(ch) == ch # " "
\* .replace(/\s+/g, "")
RemoveSpaces(s) == SelectSeq(s, NotSpace)

RECURSIVE DigitsValue(_)
DigitsValue(s) ==
    IF s = <<>> THEN 0
    ELSE 10 * DigitsValue(SubSeq(s, 1, Len(s) - 1)) + DigitValue(s[Len(s)])
AllDigits(s) == s # <<>> /\ \A i \in 1..Len(s) : IsDigit(s[i])

\* Number(str) for a text without letters, spaces or a decimal point:
\* an optional sign and digits give a finite number, "" gives 0, the rest NaN
NaN == [finite |-> FALSE, val |-> 0]
Finite(n) == [finite |-> TRUE, val |-> n]
Number(s) ==
    IF s = <<>> THEN Finite(0)
    ELSE IF AllDigits(s) THEN Finite(DigitsValue(s))
    ELSE IF s[1] = "+" /\ AllDigits(Tail(s)) THEN Finite(DigitsValue(Tail(s)))
    ELSE IF s[1] = "-" /\ AllDigits(Tail(s)) THEN Finite(0 - DigitsValue(Tail(s)))
    ELSE NaN

ParseError(msg) == [ok |-> FALSE, varName |-> "", a |-> 0, b |-> 0, error |-> msg]
Parsed(v, ca, cb) == [ok |-> TRUE, varName |-> v, a |-> ca, b |-> cb, error |-> ""]

parseLinearBinomial(raw) ==
    LET input   == RemoveSpaces(trimOuterParens(raw))
        letters == {i \in 1..Len(input) : isValidVarChar(input[i])}
        idx     == CHOOSE i \in letters : \A j \in letters : i <= j
        varName == input[idx]
        varSet  == {input[i] : i \in letters}
        coefStr == SubSeq(input, 1, idx - 1)
        tail    == SubSeq(input, idx + 1, Len(input))
        bNum    == Number(tail)
        aNum    == Number(coefStr)
        cb      == IF tail = <<>> THEN 0 ELSE bNum.val
    IN  IF input = <<>> THEN ParseError("Empty input.")
        ELSE IF letters = {}
        THEN IF ~Number(input).finite THEN ParseError("Invalid constant")
             ELSE Parsed("x", 0, Number(input).val)
        ELSE IF Cardinality(varSet) > 1 THEN ParseError("Only one variable supported")
        ELSE IF tail # <<>> /\ ~(tail[1] = "+" \/ tail[1] = "-")
        THEN ParseError("Expected + or - after variable")
        ELSE IF tail # <<>> /\ ~bNum.finite THEN ParseError("Invalid constant part")
        ELSE IF coefStr = <<>> \/ coefStr = <<"+">> THEN Parsed(varName, 1, cb)
        ELSE IF coefStr = <<"-">> THEN Parsed(varName, -1, cb)
        ELSE IF ~aNum.finite THEN ParseError("Invalid coefficient")
        ELSE Parsed(varName, aNum.val, cb)

\* computeFoil without the inner product in the middle coefficient
computeFoilOuterOnly(p, q) ==
    [varName |-> p.varName, a |-> p.a, b |-> p.b, c |-> q.a, d |-> q.b,
     ac |-> p.a * q.a, ad |-> p.a * q.b, bc |-> p.b * q.a, bd |-> p.b * q.b,
     A |-> p.a * q.a, B |-> p.a * q.b, C |-> p.b * q.b]

computeFoil(p, q) ==
    [varName |-> p.varName, a |-> p.a, b |-> p.b, c |-> q.a, d |-> q.b,
     ac |-> p.a * q.a, ad |-> p.a * q.b, bc |-> p.b * q.a, bd |-> p.b * q.b,
     A |-> p.a * q.a, B |-> p.a * q.b + p.b * q.a, C |-> p.b * q.b]

\* App: parsed1, parsed2, parseError ("null" when there is none), model
parsed1 == parseLinearBinomial(bin1)
parsed2 == parseLinearBinomial(bin2)
parseErrorOf(p1, p2) ==
    IF ~p1.ok THEN "Left binomial"
    ELSE IF ~p2.ok THEN "Right binomial"
    ELSE IF p1.ok /\ p2.ok /\ p1.varName # p2.varName THEN "Variables must match"
    ELSE "null"
parseError == parseErrorOf(parsed1, parsed2)
hasModel   == parseError = "null"
model      == computeFoil(parsed1, parsed2)

(***************************************************************************)
(* Texts typed into the binomial fields.                                   *)
(***************************************************************************)
Default1 == <<"(", "x", "+", "3", ")">>
Default2 == <<"(", "2", "x", "-", "5", ")">>
ConstantOnly == <<"(", "3", ")">>
BinomialIn(v) == <<"(", v, "+", "9", ")">>
TypedTexts ==
    {Default1, Default2, ConstantOnly, <<>>, <<"x", "+">>, <<" ", "-", "x", " ">>}
    \cup {BinomialIn(v) : v \in Letters}

(***************************************************************************)
(* FOIL visualizer with Play/Pause: the App component.  An action is one   *)
(* event handler together with the re-render and the effects it causes.    *)
(***************************************************************************)
Speeds == {250, 900, 2000}     \* the range input: 250..2000 in steps of 50

\* useEffect(..., [playing, speedMs, parseError]): when a dependency changed
\* the cleanup clears the interval, and a new one is set if playing and valid
timerEffect(p1, s1, e1) ==
    IF <<playing, speedMs, parseError>> = <<p1, s1, e1>> THEN timerRef
    ELSE IF p1 /\ e1 = "null" THEN "interval" ELSE "null"

FOIL_safeSetStep(next) ==
    step' = (IF (IF FOIL_MAX_STEP < next THEN FOIL_MAX_STEP ELSE next) < 0 THEN 0
             ELSE (IF FOIL_MAX_STEP < next THEN FOIL_MAX_STEP ELSE next))

FOIL_setBin1(t) ==
    /\ page = "foil" /\ userActive
    /\ bin1' = t /\ step' = 0 /\ playing' = FALSE
    /\ timerRef' = timerEffect(FALSE, speedMs,
                               parseErrorOf(parseLinearBinomial(t), parsed2))
    /\ UNCHANGED <<page, toolVars, studioVars, walkVars, bin2, speedMs, userActive>>
FOIL_setBin2(t) ==
    /\ page = "foil" /\ userActive
    /\ bin2' = t /\ step' = 0 /\ playing' = FALSE
    /\ timerRef' = timerEffect(FALSE, speedMs,
                               parseErrorOf(parsed1, parseLinearBinomial(t)))
    /\ UNCHANGED <<page, toolVars, studioVars, walkVars, bin1, speedMs, userActive>>
setSpeedMs(ms) ==
    /\ page = "foil" /\ userActive
    /\ speedMs' = ms
    /\ timerRef' = timerEffect(playing, ms, parseError)
    /\ UNCHANGED <<page, toolVars, step, studioVars, walkVars, bin1, bin2, playing, userActive>>
\* a Play button that is enabled whatever the input
PlayPauseAlways ==
    /\ page = "foil" /\ userActive
    /\ playing' = ~playing
    /\ timerRef' = timerEffect(~playing, speedMs, parseError)
    /\ UNCHANGED <<page, toolVars, step, studioVars, walkVars, bin1, bin2, speedMs, userActive>>
\* <button disabled={!!parseError} onClick={() => setPlaying(p => !p)}>
PlayPause ==
    /\ page = "foil" /\ userActive
    /\ parseError = "null"
    /\ playing' = ~playing
    /\ timerRef' = timerEffect(~playing, speedMs, parseError)
    /\ UNCHANGED <<page, toolVars, step, studioVars, walkVars, bin1, bin2, speedMs, userActive>>
FOIL_Back ==
    /\ page = "foil" /\ userActive
    /\ step > 0
    /\ playing' = FALSE /\ FOIL_safeSetStep(step - 1)
    /\ timerRef' = timerEffect(FALSE, speedMs, parseError)
    /\ UNCHANGED <<page, toolVars, studioVars, walkVars, bin1, bin2, speedMs, userActive>>
FOIL_NextStep ==
    /\ page = "foil" /\ userActive
    /\ step < FOIL_MAX_STEP /\ parseError = "null"
    /\ playing' = FALSE /\ FOIL_safeSetStep(step + 1)
    /\ timerRef' = timerEffect(FALSE, speedMs, parseError)
    /\ UNCHANGED <<page, toolVars, studioVars, walkVars, bin1, bin2, speedMs, userActive>>
\* a Reset animation that leaves playback as it is
ResetAnimationStepOnly ==
    /\ page = "foil" /\ userActive
    /\ FOIL_safeSetStep(0)
    /\ UNCHANGED <<page, toolVars, studioVars, walkVars, bin1, bin2, speedMs, userActive,
                   playing, timerRef>>
ResetAnimation ==
    /\ page = "foil" /\ userActive
    /\ playing' = FALSE /\ FOIL_safeSetStep(0)
    /\ timerRef' = timerEffect(FALSE, speedMs, parseError)
    /\ UNCHANGED <<page, toolVars, studioVars, walkVars, bin1, bin2, speedMs, userActive>>
resetAll ==
    /\ page = "foil" /\ userActive
    /\ bin1' = Default1 /\ bin2' = Default2
    /\ step' = 0 /\ playing' = FALSE /\ speedMs' = 900
    /\ timerRef' = timerEffect(FALSE, 900,
                               parseErrorOf(parseLinearBinomial(Default1),
                                            parseLinearBinomial(Default2)))
    /\ UNCHANGED <<page, toolVars, studioVars, walkVars, userActive>>

\* a timer callback that goes on counting past the last step
TickPastTheEnd ==
    /\ page = "foil"
    /\ timerRef = "interval"
    /\ step' = step + 1
    /\ UNCHANGED <<page, toolVars, studioVars, walkVars, bin1, bin2, speedMs, userActive,
                   playing, timerRef>>
\* the setInterval callback: setStep(s => ...)
Tick ==
    /\ page = "foil"
    /\ timerRef = "interval"
    /\ IF step >= FOIL_MAX_STEP
       THEN /\ step' = FOIL_MAX_STEP
            /\ UNCHANGED <<playing, timerRef>>
       ELSE /\ step' = step + 1
            /\ IF step + 1 >= FOIL_MAX_STEP
               THEN playing' = FALSE /\ timerRef' = "null"
               ELSE UNCHANGED <<playing, timerRef>>
    /\ UNCHANGED <<page, toolVars, studioVars, walkVars, bin1, bin2, speedMs, userActive>>

\* the user walks away: no event handler runs any more
UserLeaves ==
    /\ page = "foil" /\ userActive
    /\ userActive' = FALSE
    /\ UNCHANGED <<page, toolVars, step, studioVars, walkVars, bin1, bin2, playing, speedMs, timerRef>>

WalkNotLoaded ==
    /\ a = NumVal(Zero) /\ b = NumVal(Zero) /\ c = NumVal(Zero)
    /\ ineqType = ">"

InitFoil ==
    /\ page = "foil"
    /\ WalkNotLoaded /\ StudioNotLoaded /\ ToolsNotLoaded
    /\ bin1 = Default1 /\ bin2 = Default2
    /\ step = 0 /\ playing = FALSE /\ speedMs = 900
    /\ timerRef = "null"
    /\ userActive = TRUE

NextFoil ==
    \/ \E t \in TypedTexts : FOIL_setBin1(t)
    \/ \E t \in TypedTexts : FOIL_setBin2(t)
    \/ \E ms \in Speeds : setSpeedMs(ms)
    \/ PlayPause
    \/ FOIL_Back
    \/ FOIL_NextStep
    \/ ResetAnimation
    \/ resetAll
    \/ Tick
    \/ UserLeaves

SpecFoil == InitFoil /\ [][NextFoil]_vars
\* the browser keeps firing a registered interval
SpecFoilLive == SpecFoil /\ WF_vars(Tick)

(***************************************************************************)
(* FOIL visualizer with presets and step dots: the App component.          *)
(***************************************************************************)
FOIL2_PRESETS ==
    { [bin1 |-> <<"(", "x", "+", "3", ")">>, bin2 |-> <<"(", "x", "+", "2", ")">>],
      [bin1 |-> <<"(", "x", "-", "7", ")">>, bin2 |-> <<"(", "x", "+", "2", ")">>],
      [bin1 |-> <<"(", "2", "x", "-", "5", ")">>, bin2 |-> <<"(", "x", "+", "3", ")">>],
      [bin1 |-> <<"(", "-", "x", "+", "3", ")">>, bin2 |-> <<"(", "4", "x", "-", "1", ")">>],
      [bin1 |-> <<"(", "2", "x", ")">>, bin2 |-> <<"(", "x", "-", "5", ")">>] }

FOIL2_onBin1Change(t) ==
    /\ page = "foil2"
    /\ bin1' = t /\ step' = 0
    /\ UNCHANGED <<page, toolVars, studioVars, walkVars, bin2, playing, speedMs, timerRef, userActive>>
FOIL2_onBin2Change(t) ==
    /\ page = "foil2"
    /\ bin2' = t /\ step' = 0
    /\ UNCHANGED <<page, toolVars, studioVars, walkVars, bin1, playing, speedMs, timerRef, userActive>>
FOIL2_handlePreset(p) ==
    /\ page = "foil2"
    /\ bin1' = p.bin1 /\ bin2' = p.bin2 /\ step' = 0
    /\ UNCHANGED <<page, toolVars, studioVars, walkVars, playing, speedMs, timerRef, userActive>>
\* StepNav is rendered only with a model
FOIL2_Back ==
    /\ page = "foil2" /\ hasModel /\ step > 0
    /\ FOIL_safeSetStep(step - 1)
    /\ UNCHANGED <<page, toolVars, studioVars, walkVars, foilVars>>
FOIL2_NextStep ==
    /\ page = "foil2" /\ hasModel /\ step < FOIL_MAX_STEP
    /\ FOIL_safeSetStep(step + 1)
    /\ UNCHANGED <<page, toolVars, studioVars, walkVars, foilVars>>
FOIL2_Dot(i) ==
    /\ page = "foil2" /\ hasModel
    /\ FOIL_safeSetStep(i)
    /\ UNCHANGED <<page, toolVars, studioVars, walkVars, foilVars>>

InitFoil2 ==
    /\ page = "foil2"
    /\ WalkNotLoaded /\ StudioNotLoaded /\ ToolsNotLoaded
    /\ bin1 = Default1 /\ bin2 = Default2
    /\ step = 0 /\ playing = FALSE /\ speedMs = 900
    /\ timerRef = "null"
    /\ userActive = TRUE

NextFoil2 ==
    \/ \E t \in TypedTexts : FOIL2_onBin1Change(t)
    \/ \E t \in TypedTexts : FOIL2_onBin2Change(t)
    \/ \E p \in FOIL2_PRESETS : FOIL2_handlePreset(p)
    \/ FOIL2_Back
    \/ FOIL2_NextStep
    \/ \E i \in 0..FOIL_MAX_STEP : FOIL2_Dot(i)

\* a session on either FOIL page
SpecFoilPages == (InitFoil \/ InitFoil2) /\ [][NextFoil \/ NextFoil2]_vars


(***************************************************************************)
(* Quadratic Graph Studio (app.js 1-1347).                                 *)
(*                                                                         *)
(* Numbers of this page are fixed-point: the integer n stands for the      *)
(* number n / Unit.  Products and quotients are rounded to that grid, so   *)
(* the arithmetic is that of the code up to the third decimal.             *)
(***************************************************************************)
Unit == 1000
Fix(k)        == k * Unit
MulFix(x, y)  == (x * y) \div Unit
DivFix(x, y)  == IF y < 0 THEN ((0 - x) * Unit) \div (0 - y) ELSE (x * Unit) \div y
Min2(x, y)    == IF x < y THEN x ELSE y
Max2(x, y)    == IF x < y THEN y ELSE x
AbsInt(x)     == IF x < 0 THEN 0 - x ELSE x
\* Bind([v \in {e} |-> body]) is body with v standing for the value of e:
\* a LET whose definition is evaluated once
Bind(f)       ==
    CHOOSE r \in {g[CHOOSE v \in DOMAIN g : TRUE] : g \in {f}} : TRUE

RECURSIVE SqrtBetween(_, _, _)
SqrtBetween(n, lo, hi) ==
    IF lo >= hi THEN lo
    ELSE LET mid == (lo + hi + 1) \div 2
         IN  IF mid * mid <= n THEN SqrtBetween(n, mid, hi)
                               ELSE SqrtBetween(n, lo, mid - 1)
\* Math.sqrt of n / Unit^2, as a fixed-point number
SqrtOfSquare(n) == SqrtBetween(n, 0, 46 * Unit)

\* the content of a text field: a decimal literal (n / Unit), a fraction
\* literal "n/d", an empty (or blank) text, or any other text
NumText(n)     == [k |-> "num",   n |-> n, d |-> 1]
FracText(n, d) == [k |-> "frac",  n |-> n, d |-> d]
EmptyText      == [k |-> "empty", n |-> 0, d |-> 1]
BadText        == [k |-> "bad",   n |-> 0, d |-> 1]

Coeffs(x, y, z) == [a |-> x, b |-> y, c |-> z]

defaultState == [a |-> Fix(1), b |-> Fix(0), c |-> Fix(0),
                 xMin |-> Fix(0 - 10), xMax |-> Fix(10)]

presets == { Coeffs(Fix(1), Fix(0), Fix(0)),
             Coeffs(Fix(0 - 1), Fix(0), Fix(0)),
             Coeffs(Fix(1), Fix(0), Fix(0 - 4)),
             Coeffs(Fix(1), Fix(0), Fix(5)) }

padding == 50
CURVE_STEPS == 180
duration == 300
\* index.html: <canvas id="graph" width="980" height="620">
canvasWidth == 980
canvasHeight == 620

parseFraction(t) ==
    IF t.k = "num" THEN Finite(t.n)
    ELSE IF t.k = "frac"
         THEN IF t.d = 0 THEN NaN ELSE Finite(DivFix(Fix(t.n), Fix(t.d)))
    ELSE NaN

\* parseValue: the value returned ...
parseValue(t, fallback) ==
    IF parseFraction(t).finite THEN parseFraction(t).val ELSE fallback
\* ... and what it does to the "invalid" class of the field
parseValueMark(marks, field, t) ==
    IF parseFraction(t).finite THEN marks \ {field}
    ELSE IF t.k # "empty" THEN marks \cup {field}
    ELSE marks

\* Double precision: from 2^54 on, neighbouring doubles are more than 2
\* apart, and adding or subtracting 1 returns the number itself.  The
\* fixed-point number Huge stands for such a double (the text "1e17").
Huge == Fix(1000000)
FloatAdd(x, y) ==
    IF AbsInt(x) >= Huge /\ AbsInt(y) <= Fix(1) THEN x ELSE x + y

clampRange(min, max) ==
    IF min = max THEN <<FloatAdd(min, 0 - Fix(1)), FloatAdd(max, Fix(1))>>
    ELSE IF min > max THEN <<max, min>>
    ELSE <<min, max>>

\* t and the result are fixed-point
easeOutCubic(t) == Unit - MulFix(MulFix(Unit - t, Unit - t), Unit - t)
lerp(start, end, t) == start + MulFix(end - start, t)

evaluateQuadratic(co, x) == MulFix(MulFix(co.a, x), x) + MulFix(co.b, x) + co.c

getVertex(co) ==
    IF co.a = 0 THEN [finite |-> FALSE, x |-> 0, y |-> 0]
    ELSE LET x == DivFix(0 - co.b, 2 * co.a)
         IN  [finite |-> TRUE, x |-> x, y |-> evaluateQuadratic(co, x)]

\* b*b - 4*a*c, in units of 1 / Unit^2
discriminant(co) == co.b * co.b - 4 * co.a * co.c

getRoots(co) ==
    IF co.a = 0
    THEN IF co.b = 0 THEN <<>> ELSE << DivFix(0 - co.c, co.b) >>
    ELSE LET disc == discriminant(co)
             sqrtDisc == SqrtOfSquare(disc)
         IN  IF disc < 0 THEN <<>>
             ELSE IF disc = 0 THEN << DivFix(0 - co.b, 2 * co.a) >>
             ELSE << DivFix((0 - co.b) + sqrtDisc, 2 * co.a),
                     DivFix((0 - co.b) - sqrtDisc, 2 * co.a) >>

\* value.toFixed(2), as the number the text denotes
toFixed2(x) ==
    IF x >= 0 THEN ((x + 5) \div 10) * 10
    ELSE 0 - ((((0 - x) + 5) \div 10) * 10)

\* the statistics card: discriminant, roots text and colour class
updateStats(co) ==
    Bind([roots \in {getRoots(co)} |->
        [ coeffs |-> co,
          vertex |-> getVertex(co),
          disc   |-> discriminant(co),
          roots  |-> [i \in 1..Len(roots) |-> toFixed2(roots[i])],
          card   |-> IF Len(roots) = 0 THEN "no-roots"
                     ELSE IF Len(roots) = 1 THEN "one-root"
                     ELSE "two-roots" ]])

getAutoXRange(co) ==
    Bind([roots \in {getRoots(co)} |->
    LET vertex == getVertex(co)
        center0 == IF vertex.finite THEN vertex.x ELSE 0
        minRoot == Min2(roots[1], roots[2])
        maxRoot == Max2(roots[1], roots[2])
        center == IF Len(roots) >= 2 THEN (minRoot + maxRoot) \div 2
                  ELSE IF Len(roots) = 1 THEN roots[1]
                  ELSE IF co.a # 0 /\ AbsInt(co.a) >= Unit \div 100 THEN center0
                  ELSE IF co.b # 0 THEN DivFix(0 - co.c, co.b)
                  ELSE center0
        halfWidth ==
                  IF Len(roots) >= 2 THEN Max2(Fix(4), MulFix(maxRoot - minRoot, 750))
                  ELSE IF Len(roots) = 1 THEN Fix(8)
                  ELSE IF co.a # 0 /\ AbsInt(co.a) >= Unit \div 100
                       THEN DivFix(Fix(6), SqrtOfSquare(AbsInt(co.a) * Unit))
                  ELSE IF co.b # 0 THEN Fix(10)
                  ELSE Fix(8)
        clamped == Min2(Max2(halfWidth, Fix(4)), Fix(20))
    IN  <<center - clamped, center + clamped>>])

\* The loop visits the CURVE_STEPS + 1 grid points of [xMin, xMax]; a
\* quadratic takes its extreme values on that grid at the two ends or next
\* to the vertex, so only those grid points are evaluated.
sampleYRange(co, xMin, xMax) ==
    LET x(i) == xMin + (i * (xMax - xMin)) \div CURVE_STEPS
        nearVertex(vertex) ==
            IF vertex.finite /\ vertex.x > xMin /\ vertex.x < xMax
            THEN ((vertex.x - xMin) * CURVE_STEPS) \div (xMax - xMin)
            ELSE 0
    IN  Bind([iv \in {nearVertex(getVertex(co))} |->
        Bind([ys \in {{ evaluateQuadratic(co, x(i)) :
                          i \in {0, iv, Min2(iv + 1, CURVE_STEPS), CURVE_STEPS} }} |->
            [ min |-> CHOOSE y \in ys : \A z \in ys : y <= z,
              max |-> CHOOSE y \in ys : \A z \in ys : z <= y ]])])

\* only the x-range of the bounds is modelled
getAutoBounds(co, baseXMin, baseXMax) ==
    LET plotWidth  == canvasWidth - padding * 2
        plotHeight == canvasHeight - padding * 2
        center   == (baseXMin + baseXMax) \div 2
        maxRange == baseXMax - baseXMin
        minRange == Min2(Fix(4), maxRange)
        pass(range) ==
            Bind([sample \in {sampleYRange(co, center - range \div 2,
                                                center + range \div 2)} |->
                LET paddingY == Max2(Unit \div 2, MulFix(sample.max - sample.min, 120))
                    yRange == Max2(0, (sample.max + paddingY) - (sample.min - paddingY))
                IN  Min2(Max2((yRange * plotWidth) \div plotHeight, minRange), maxRange)])
    IN  Bind([afterPass0 \in {pass(maxRange)} |->
        Bind([xRange \in {pass(afterPass0)} |->
            [xMin |-> center - xRange \div 2, xMax |-> center + xRange \div 2]])])

getManualBounds(co, xMin, xMax) == [xMin |-> xMin, xMax |-> xMax]


(***************************************************************************)
(* Quadratic Graph Studio: the page state and the functions that change    *)
(* it.  The functions of app.js read and write globals and the DOM; here   *)
(* they map a state record S to the state they leave behind, so that a     *)
(* listener that calls several of them is one action.                      *)
(***************************************************************************)
MaxStudioCoef == 1   \* coefficients typed or set by a slider: -MaxStudioCoef..MaxStudioCoef
FrameMs == 150       \* time between two animation frames, in ms
MaxEvents == 3       \* user events in one session

CoefFields  == {"a", "b", "c"}
RangeFields == {"xMin", "xMax"}

TypedCoefs  == {EmptyText, BadText, FracText(1, 2)}
                 \cup {NumText(Fix(k)) : k \in (0 - MaxStudioCoef)..MaxStudioCoef}
TypedRanges == {EmptyText, BadText, NumText(Fix(0 - 10)), NumText(Fix(3)),
                NumText(Fix(10)), NumText(Huge)}
SliderStops == {Fix(k) : k \in (0 - MaxStudioCoef)..MaxStudioCoef}

\* index.html: <input type="range" min="-5" max="5" step="0.1" id="slider-a">,
\* and -10..10 for b and c
sliderMin(f) == IF f = "a" THEN Fix(0 - 5) ELSE Fix(0 - 10)
sliderMax(f) == IF f = "a" THEN Fix(5) ELSE Fix(10)
sliderStep   == Unit \div 10
\* what a range input holds after `slider.value = text`: a text that is not
\* a decimal number gives the default (the middle of the range), a number
\* is clamped to the range and snapped to the step
rangeValue(f, t) ==
    IF t.k # "num" THEN (sliderMin(f) + sliderMax(f)) \div 2
    ELSE LET clamped == Min2(Max2(t.n, sliderMin(f)), sliderMax(f))
         IN  sliderMin(f)
               + (((clamped - sliderMin(f)) + sliderStep \div 2) \div sliderStep) * sliderStep

Current ==
    [ inputs |-> inputs, sliders |-> sliders, autoZoomToggle |-> autoZoomToggle,
      invalid |-> invalid, hoverState |-> hoverState,
      animationState |-> animationState, frames |-> frames,
      canvas |-> canvas, ui |-> ui ]

Commit(S) ==
    \E T \in {S} :
        /\ inputs' = T.inputs
        /\ sliders' = T.sliders
        /\ autoZoomToggle' = T.autoZoomToggle
        /\ invalid' = T.invalid
        /\ hoverState' = T.hoverState
        /\ animationState' = T.animationState
        /\ frames' = T.frames
        /\ canvas' = T.canvas
        /\ ui' = T.ui

\* the handle kept in animationState.animationFrame is always that of the
\* latest request; a callback still pending under an older handle can no
\* longer be cancelled and is counted in frames.orphans
requestAnimationFrame(S) ==
    [S EXCEPT !.animationState.animationFrame = "handle",
              !.frames = [current |-> TRUE,
                          orphans |-> @.orphans + (IF @.current THEN 1 ELSE 0)]]
cancelAnimationFrameLate(S) == S
cancelAnimationFrame(S) == [S EXCEPT !.frames.current = FALSE]

renderWithCoeffs(S0, co0, updateUI) ==
    Bind([S \in {S0} |-> Bind([co \in {co0} |->
    LET isAuto == S.autoZoomToggle
        xMinIn == parseValue(S.inputs.xMin, defaultState.xMin)
        xMaxIn == parseValue(S.inputs.xMax, defaultState.xMax)
        marks  == parseValueMark(parseValueMark(S.invalid, "xMin", S.inputs.xMin),
                                 "xMax", S.inputs.xMax)
        rangeOf(auto) == IF isAuto THEN Bind([r \in {auto} |-> clampRange(r[1], r[2])])
                                   ELSE clampRange(xMinIn, xMaxIn)
        boundsOf(range) == IF isAuto THEN getAutoBounds(co, range[1], range[2])
                                     ELSE getManualBounds(co, range[1], range[2])
    IN  Bind([range \in {rangeOf(getAutoXRange(co))} |->
        Bind([bounds \in {boundsOf(range)} |->
    LET shown  == IF isAuto /\ updateUI
                  THEN [S.inputs EXCEPT !.xMin = NumText(toFixed2(bounds.xMin)),
                                        !.xMax = NumText(toFixed2(bounds.xMax))]
                  ELSE S.inputs
    IN  [S EXCEPT
           !.invalid = marks,
           !.inputs = shown,
           !.hoverState = [@ EXCEPT !.bounds = bounds, !.coefficients = co],
           !.canvas = [coeffs |-> co, isAuto |-> isAuto,
                       fromMin |-> xMinIn, fromMax |-> xMaxIn, bounds |-> bounds],
           !.ui = IF updateUI
                  THEN [stats |-> updateStats(co),
                        equation |-> [f \in CoefFields |-> shown[f]],
                        table |-> co]
                  ELSE @]])])])])

\* renderWithCoeffs(a, b, c, progress === 1): which frames of an animation
\* update statistics, equation and table
updateUIAnyFrame(progress) == TRUE
updateUIOnFrame(progress) == progress = Unit

animate(S0, ts) ==
    Bind([S \in {S0} |->
    LET startTime == IF S.animationState.startTime = 0 THEN ts
                     ELSE S.animationState.startTime
        elapsed  == ts - startTime
        progress == Min2(DivFix(elapsed, duration), Unit)
        easedProgress == easeOutCubic(progress)
        from == S.animationState.startCoeffs
        to   == S.animationState.targetCoeffs
        co   == Coeffs(lerp(from.a, to.a, easedProgress),
                       lerp(from.b, to.b, easedProgress),
                       lerp(from.c, to.c, easedProgress))
    IN  Bind([S1 \in {renderWithCoeffs([S EXCEPT !.animationState.startTime = startTime],
                                        co, updateUIOnFrame(progress))} |->
            IF progress < Unit THEN requestAnimationFrame(S1)
            ELSE [S1 EXCEPT !.animationState.isAnimating = FALSE,
                            !.animationState.startTime = 0]])])

\* render: `if (hasChanged && !hoverState.isHovering)`, whether the change
\* is animated
animatesWhenChanged(hasChanged, isHovering) == hasChanged
animates(hasChanged, isHovering) == hasChanged /\ ~isHovering

render(S0) ==
    Bind([S \in {S0} |->
    LET co == Coeffs(parseValue(S.inputs.a, defaultState.a),
                     parseValue(S.inputs.b, defaultState.b),
                     parseValue(S.inputs.c, defaultState.c))
        marks == parseValueMark(parseValueMark(parseValueMark(S.invalid,
                     "a", S.inputs.a), "b", S.inputs.b), "c", S.inputs.c)
        cancelled(S1) == IF S1.animationState.isAnimating
                            /\ S1.animationState.animationFrame # "null"
                         THEN cancelAnimationFrame(S1) ELSE S1
    IN  Bind([S2 \in {cancelled([S EXCEPT !.invalid = marks])} |->
        LET prev == S2.animationState.targetCoeffs
            hasChanged == prev # co
        IN  IF animates(hasChanged, S2.hoverState.isHovering)
            THEN requestAnimationFrame(
                     [S2 EXCEPT !.animationState =
                         [@ EXCEPT !.startCoeffs = prev, !.targetCoeffs = co,
                                   !.isAnimating = TRUE, !.startTime = 0]])
            ELSE renderWithCoeffs([S2 EXCEPT !.animationState.targetCoeffs = co],
                                  co, TRUE)])])

syncCoefficientToSlider(S0, f) ==
    Bind([S \in {S0} |-> render([S EXCEPT !.sliders[f] = rangeValue(f, S.inputs[f])])])
syncCoefficientToInput(S0, f) ==
    Bind([S \in {S0} |-> render([S EXCEPT !.inputs[f] = NumText(S.sliders[f])])])

resetForm(S) ==
    render([S EXCEPT
              !.inputs = [a |-> NumText(defaultState.a), b |-> NumText(defaultState.b),
                          c |-> NumText(defaultState.c),
                          xMin |-> NumText(defaultState.xMin),
                          xMax |-> NumText(defaultState.xMax)],
              !.sliders = [a |-> rangeValue("a", NumText(defaultState.a)),
                           b |-> rangeValue("b", NumText(defaultState.b)),
                           c |-> rangeValue("c", NumText(defaultState.c))],
              !.autoZoomToggle = TRUE])

(***************************************************************************)
(* Quadratic Graph Studio: the event listeners (app.js 1285-1332) and the  *)
(* animation-frame callback.                                               *)
(***************************************************************************)
StudioFrame == UNCHANGED <<page, toolVars, step, walkVars, foilVars>>

\* Time is counted from the first frame of the running animation, and is
\* not counted while no animation has drawn a frame.
Clock(ts) == IF animationState'.startTime = 0 THEN 0 ELSE ts
NextTimestamp ==
    IF animationState.startTime = 0 THEN FrameMs
    ELSE Min2(timestamp + FrameMs, FrameMs + duration)

\* what every user event does besides running its listeners
UserEvent ==
    /\ events' = events + 1
    /\ timestamp' = Clock(timestamp)
    /\ StudioFrame

\* typing in a coefficient field: the "input" listener `render` registered
\* for every field runs first, then the listener that syncs the slider
CoefTextInput(f, t) ==
    /\ page = "studio" /\ events < MaxEvents
    /\ t # inputs[f]
    /\ Commit(syncCoefficientToSlider(render([Current EXCEPT !.inputs[f] = t]), f))
    /\ lastEvent' = "text"
    /\ UserEvent

RangeTextInput(f, t) ==
    /\ page = "studio" /\ events < MaxEvents
    /\ t # inputs[f]
    /\ Commit(render([Current EXCEPT !.inputs[f] = t]))
    /\ lastEvent' = "range"
    /\ UserEvent

SliderInput(f, v) ==
    /\ page = "studio" /\ events < MaxEvents
    /\ v # sliders[f]
    /\ Commit(syncCoefficientToInput([Current EXCEPT !.sliders[f] = v], f))
    /\ lastEvent' = "slider"
    /\ UserEvent

AutoZoomChange ==
    /\ page = "studio" /\ events < MaxEvents
    /\ Commit(render([Current EXCEPT !.autoZoomToggle = ~autoZoomToggle]))
    /\ lastEvent' = "autozoom"
    /\ UserEvent

PresetClick(p) ==
    /\ page = "studio" /\ events < MaxEvents
    /\ Commit(render([Current EXCEPT
                        !.inputs.a = NumText(p.a), !.inputs.b = NumText(p.b),
                        !.inputs.c = NumText(p.c),
                        !.sliders = [a |-> rangeValue("a", NumText(p.a)),
                                     b |-> rangeValue("b", NumText(p.b)),
                                     c |-> rangeValue("c", NumText(p.c))]]))
    /\ lastEvent' = "preset"
    /\ UserEvent

ResetClick ==
    /\ page = "studio" /\ events < MaxEvents
    /\ Commit(resetForm(Current))
    /\ lastEvent' = "reset"
    /\ UserEvent

MouseMove ==
    /\ page = "studio" /\ events < MaxEvents
    /\ Commit(render([Current EXCEPT !.hoverState.isHovering = TRUE]))
    /\ lastEvent' = "mousemove"
    /\ UserEvent

MouseLeave ==
    /\ page = "studio" /\ events < MaxEvents
    /\ hoverState.isHovering
    /\ Commit(render([Current EXCEPT !.hoverState.isHovering = FALSE]))
    /\ lastEvent' = "mouseleave"
    /\ UserEvent

\* the browser runs the pending callback; time is counted from the first
\* frame of the running animation
AnimationFrame ==
    /\ page = "studio"
    /\ frames.current
    /\ UNCHANGED <<lastEvent, events>> /\ StudioFrame
    /\ Commit(animate([Current EXCEPT !.frames.current = FALSE], NextTimestamp))
    /\ timestamp' = Clock(NextTimestamp)

\* the page as index.html declares it, before the script runs
Loaded ==
    [ inputs |-> [a |-> NumText(defaultState.a), b |-> NumText(defaultState.b),
                  c |-> NumText(defaultState.c),
                  xMin |-> NumText(defaultState.xMin),
                  xMax |-> NumText(defaultState.xMax)],
      sliders |-> [a |-> defaultState.a, b |-> defaultState.b, c |-> defaultState.c],
      autoZoomToggle |-> TRUE,
      invalid |-> {},
      hoverState |-> [isHovering |-> FALSE, bounds |-> "null",
                      coefficients |-> Coeffs(Fix(1), Fix(0), Fix(0))],
      animationState |-> [isAnimating |-> FALSE, startTime |-> 0,
                          duration |-> duration,
                          startCoeffs |-> Coeffs(Fix(1), Fix(0), Fix(0)),
                          targetCoeffs |-> Coeffs(Fix(1), Fix(0), Fix(0)),
                          animationFrame |-> "null"],
      frames |-> [current |-> FALSE, orphans |-> 0],
      canvas |-> "blank",
      ui |-> "blank" ]

\* the state after the script has run: its last statement is render()
InitStudio ==
    /\ page = "studio"
    /\ step = 0
    /\ WalkNotLoaded /\ FoilNotLoaded /\ ToolsNotLoaded
    /\ \E T \in {render(Loaded)} :
          /\ inputs = T.inputs
          /\ sliders = T.sliders
          /\ autoZoomToggle = T.autoZoomToggle
          /\ invalid = T.invalid
          /\ hoverState = T.hoverState
          /\ animationState = T.animationState
          /\ frames = T.frames
          /\ canvas = T.canvas
          /\ ui = T.ui
    /\ timestamp = 0
    /\ lastEvent = "none"
    /\ events = 0

NextStudio ==
    \/ \E f \in CoefFields, t \in TypedCoefs : CoefTextInput(f, t)
    \/ \E f \in RangeFields, t \in TypedRanges : RangeTextInput(f, t)
    \/ \E f \in CoefFields, v \in SliderStops : SliderInput(f, v)
    \/ AutoZoomChange
    \/ \E p \in presets : PresetClick(p)
    \/ ResetClick
    \/ MouseMove
    \/ MouseLeave
    \/ AnimationFrame

SpecStudio == InitStudio /\ [][NextStudio]_vars
\* Sessions of at most MaxLiveEvents user events, in which the browser runs
\* every requested animation frame: requestAnimationFrame callbacks are
\* called before the next repaint.
MaxLiveEvents == 2
NextStudioLive == NextStudio /\ events' <= MaxLiveEvents
SpecStudioLive == InitStudio /\ [][NextStudioLive]_vars /\ WF_vars(AnimationFrame)


(***************************************************************************)
(* C3.  For a # 0 and each inequality type, a real x lies in the solution  *)
(* returned by getSolution (the union of its intervals, an endpoint        *)
(* included exactly when marked closed) iff a*x^2 + b*x + c satisfies the  *)
(* inequality against 0.                                                   *)
(***************************************************************************)
C3_SolutionIsExact ==
    (page = "inequality" /\ NSign(numA) # 0) =>
        \A x \in SamplePoints :
            InSolution(x, QI_solution)
                <=> Satisfies(SignAt(numA, numB, numC, x), ineqType)

(***************************************************************************)
(* C7.  On the inequality solver and on completing-the-square the          *)
(* "a must be non-zero" message is displayed exactly when the numeric      *)
(* value of a is 0 (a field holding "" or "-" counts as 0), and while it   *)
(* is displayed no graph, step navigation, explanation panel or result     *)
(* card is rendered.                                                       *)
(***************************************************************************)
WalkRendered == IF page = "inequality" THEN QI_Rendered ELSE CTS_Rendered
GraphAndWalkthrough ==
    {"ParabolaSvg", "NumberLine", "AreaModelSvg", "MiniParabola",
     "StepNav", "ExplanationPanel", "ResultCard"}

C7_ErrorIffAZero ==
    page \in {"inequality", "cts"} =>
        /\ ("error-banner" \in WalkRendered) <=> (a.k = "str" \/ a.v = Zero)
        /\ ("error-banner" \in WalkRendered) =>
               WalkRendered \cap GraphAndWalkthrough = {}

C7_WitnessIneq ==
    page = "inequality" /\ a = StrVal("-") /\ "error-banner" \in WalkRendered
C7_Witness ==
    page = "cts" /\ a = NumVal(Zero) /\ "error-banner" \in WalkRendered

C4_PlaybackSwitchesOff ==
    (page = "foil" /\ playing /\ parseError = "null" /\ ~userActive)
        ~> (~playing /\ step = FOIL_MAX_STEP)

(***************************************************************************)
(* C5.  FOIL visualizers: for every letter v, a constant-only text next    *)
(* to a well-formed binomial in v produces a product model and no          *)
(* validation error.                                                       *)
(***************************************************************************)
C5_ConstantNextToAnyLetter ==
    \A v \in Letters :
        ( /\ page \in {"foil", "foil2"}
          /\ \/ bin1 = ConstantOnly /\ bin2 = BinomialIn(v)
             \/ bin1 = BinomialIn(v) /\ bin2 = ConstantOnly )
        => (hasModel /\ parseError = "null")

(***************************************************************************)
(* Quadratic Graph Studio: what the claims speak about.                    *)
(***************************************************************************)
\* the coefficients the input fields denote
parsedCoeffs ==
    Coeffs(parseValue(inputs.a, defaultState.a),
           parseValue(inputs.b, defaultState.b),
           parseValue(inputs.c, defaultState.c))
\* no animation-frame callback is pending
settled == ~frames.current /\ frames.orphans = 0
StudioSamples == {Fix(k) : k \in (0 - MaxStudioCoef - 1)..(MaxStudioCoef + 1)}

(***************************************************************************)
(* C1.  Graph Studio: the discriminant card is 'two-roots' exactly when    *)
(* the discriminant shown is positive, 'one-root' exactly when it is zero  *)
(* and 'no-roots' exactly when it is negative, a = 0 included.             *)
(***************************************************************************)
C1_CardBySignOfDiscriminant ==
    page = "studio" =>
        /\ (ui.stats.card = "two-roots") <=> (ui.stats.disc > 0)
        /\ (ui.stats.card = "one-root")  <=> (ui.stats.disc = 0)
        /\ (ui.stats.card = "no-roots")  <=> (ui.stats.disc < 0)

(***************************************************************************)
(* C2.  Graph Studio: every slider, text-field, preset or Reset event that *)
(* changes a coefficient while the pointer is not over the canvas starts   *)
(* a transition from the old to the new coefficients: a frame is           *)
(* scheduled and the new curve is not drawn by the event itself.           *)
(***************************************************************************)
C2_CoefficientChangeAnimates ==
    [][ ( /\ page = "studio"
          /\ events' # events
          /\ lastEvent' \in {"slider", "text", "preset", "reset"}
          /\ ~hoverState.isHovering
          /\ parsedCoeffs' # parsedCoeffs )
        => ( /\ frames'.current
             /\ animationState'.isAnimating
             /\ animationState'.startCoeffs = parsedCoeffs
             /\ animationState'.targetCoeffs = parsedCoeffs'
             /\ canvas' = canvas ) ]_vars

(***************************************************************************)
(* C6.  Graph Studio: once rendering has settled after a click on Reset,   *)
(* the coefficient fields and sliders hold 1, 0, 0, the X min field holds  *)
(* -10, the X max field holds 10 and auto-zoom is on.                      *)
(***************************************************************************)
C6_ResetRestoresDefaults ==
    (page = "studio" /\ lastEvent = "reset" /\ settled) =>
        /\ parseFraction(inputs.a) = Finite(defaultState.a)
        /\ parseFraction(inputs.b) = Finite(defaultState.b)
        /\ parseFraction(inputs.c) = Finite(defaultState.c)
        /\ sliders = [a |-> defaultState.a, b |-> defaultState.b, c |-> defaultState.c]
        /\ parseFraction(inputs.xMin) = Finite(defaultState.xMin)
        /\ parseFraction(inputs.xMax) = Finite(defaultState.xMax)
        /\ autoZoomToggle

(***************************************************************************)
(* C8.  Graph Studio with auto-zoom off: whatever finite numbers the X min *)
(* and X max fields hold, the x-range drawn has xMin < xMax; the two are   *)
(* swapped when X min > X max and widened by 1 on each side when equal.    *)
(***************************************************************************)
C8_ManualRangeOrdered ==
    ( /\ page = "studio"
      /\ ~autoZoomToggle
      /\ parseFraction(inputs.xMin).finite
      /\ parseFraction(inputs.xMax).finite )
    => LET lo == parseFraction(inputs.xMin).val
           hi == parseFraction(inputs.xMax).val
       IN  /\ ~canvas.isAuto
           /\ canvas.bounds.xMin < canvas.bounds.xMax
           /\ lo > hi => canvas.bounds = [xMin |-> hi, xMax |-> lo]
           /\ lo = hi => canvas.bounds = [xMin |-> lo - Fix(1), xMax |-> hi + Fix(1)]

(***************************************************************************)
(* C9.  Graph Studio with a = 0: the roots shown are exactly the real      *)
(* solutions of b*x + c = 0.                                               *)
(***************************************************************************)
C9_LinearRootsShown ==
    (page = "studio" /\ ui.stats.coeffs.a = 0) =>
        \A x \in StudioSamples :
            (\E i \in DOMAIN ui.stats.roots : ui.stats.roots[i] = x)
                <=> (MulFix(ui.stats.coeffs.b, x) + ui.stats.coeffs.c = 0)


(***************************************************************************)
(* C11.  Completing the square with a = 1: the step 'Factor Out the        *)
(* Leading Coefficient' is never the current step, and advancing from      *)
(* 'State the Quadratic' leads to 'Identify the Linear Coefficient'.       *)
(***************************************************************************)
C11_FactorOutSkippedWhenAIsOne ==
    /\ [](page = "cts" /\ numA = Int2Num(1)
            => CTS_content # "Factor Out the Leading Coefficient")
    /\ [][ ( /\ page = "cts" /\ numA = Int2Num(1) /\ numA' = numA
             /\ CTS_content = "State the Quadratic"
             /\ step' = step + 1 )
           => CTS_content' = "Identify the Linear Coefficient" ]_vars


(***************************************************************************)
(* Functions of the program applied to arguments.  The numbers handed to   *)
(* them are integers, and integer arithmetic is exact: the rounding of     *)
(* doubles beyond 2^53 is not modelled.                                    *)
(***************************************************************************)
MaxArg     == 6     \* Q(num, den): |num|, |den| <= MaxArg
MaxQuadArg == 3     \* getCompletingSteps(a, b, c): |a|, |b|, |c| <= MaxQuadArg
MaxFoilArg == 2     \* computeFoil: coefficients of the binomials, |.| <= MaxFoilArg

\* while (b) { [a, b] = [b, a % b]; }
RECURSIVE gcdLoop(_, _)
gcdLoop(x, y) == IF y # 0 THEN gcdLoop(y, x % y) ELSE x
\* function gcd(a, b): a = Math.abs(a); b = Math.abs(b); loop; return a || 1
gcd(x, y) ==
    LET g == gcdLoop(AbsInt(x), AbsInt(y)) IN IF g # 0 THEN g ELSE 1

\* Q without the sign moved to the numerator
QUnsigned(num, den) ==
    IF den = 0 THEN [n |-> 0, d |-> 1]
    ELSE LET g == gcd(AbsInt(num), AbsInt(den))
         IN  [n |-> num \div g, d |-> den \div g]

\* function Q(num, den), on integers (Number.isInteger holds for both)
Q(num, den) ==
    IF den = 0 THEN [n |-> 0, d |-> 1]
    ELSE LET sign == IF den < 0 THEN -1 ELSE 1
             g    == gcd(AbsInt(num), AbsInt(den))
         IN  [n |-> (sign * num) \div g, d |-> AbsInt(den) \div g]

\* getCompletingSteps with k over the denominator of the remainder
getCompletingStepsRemainder(qa, qb, qc) ==
    [ pF         |-> Q(qb, qa),
      halfPF     |-> Q(qb, 2 * qa),
      halfPSqF   |-> Q(qb * qb, 4 * qa * qa),
      hF         |-> Q(0 - qb, 2 * qa),
      kF         |-> Q(4 * qa * qc - qb * qb, 4 * qa * qa),
      cOverAF    |-> Q(qc, qa),
      remainderF |-> Q(4 * qa * qc - qb * qb, 4 * qa * qa) ]

\* function getCompletingSteps(a, b, c): the exact fractions it returns
getCompletingSteps(qa, qb, qc) ==
    [ pF         |-> Q(qb, qa),
      halfPF     |-> Q(qb, 2 * qa),
      halfPSqF   |-> Q(qb * qb, 4 * qa * qa),
      hF         |-> Q(0 - qb, 2 * qa),
      kF         |-> Q(4 * qa * qc - qb * qb, 4 * qa),
      cOverAF    |-> Q(qc, qa),
      remainderF |-> Q(4 * qa * qc - qb * qb, 4 * qa * qa) ]

CallFrame == UNCHANGED <<page, step, walkVars, foilVars, studioVars, app>>

CallQ(num, den) ==
    /\ page = "functions"
    /\ call' = [fn |-> "Q", args |-> <<num, den>>, out |-> Q(num, den)]
    /\ CallFrame
CallGetCompletingSteps(qa, qb, qc) ==
    /\ page = "functions"
    /\ call' = [fn |-> "getCompletingSteps", args |-> <<qa, qb, qc>>,
                out |-> getCompletingSteps(qa, qb, qc)]
    /\ CallFrame
CallComputeFoil(p, q) ==
    /\ page = "functions"
    /\ call' = [fn |-> "computeFoil", args |-> <<p, q>>, out |-> computeFoil(p, q)]
    /\ CallFrame

FoilArgs ==
    {Parsed(v, ca, cb) : v \in {"x"}, ca \in (0 - MaxFoilArg)..MaxFoilArg,
                         cb \in (0 - MaxFoilArg)..MaxFoilArg}

InitFunctions ==
    /\ page = "functions"
    /\ step = 0
    /\ WalkNotLoaded /\ FoilNotLoaded /\ StudioNotLoaded
    /\ app = <<>>
    /\ call = [fn |-> "none", args |-> <<>>, out |-> <<>>]

NextFunctions ==
    \/ \E num \in (0 - MaxArg)..MaxArg, den \in (0 - MaxArg)..MaxArg :
          CallQ(num, den)
    \/ \E qa \in ((0 - MaxQuadArg)..MaxQuadArg) \ {0},
          qb \in (0 - MaxQuadArg)..MaxQuadArg,
          qc \in (0 - MaxQuadArg)..MaxQuadArg : CallGetCompletingSteps(qa, qb, qc)
    \/ \E p \in FoilArgs, q \in FoilArgs : CallComputeFoil(p, q)

SpecFunctions == InitFunctions /\ [][NextFunctions]_vars

Samples == (0 - 3)..3

(***************************************************************************)
(* C12.  computeFoil returns the four products ac, ad, bc, bd and the      *)
(* coefficients A = ac, B = ad + bc, C = bd, and A v^2 + B v + C equals    *)
(* (a v + b)(c v + d) at every v.                                          *)
(***************************************************************************)
C12_FoilExpansion ==
    (page = "functions" /\ call.fn = "computeFoil") =>
        LET p == call.args[1]
            q == call.args[2]
            m == call.out
        IN  /\ m.ac = p.a * q.a /\ m.ad = p.a * q.b
            /\ m.bc = p.b * q.a /\ m.bd = p.b * q.b
            /\ m.A = m.ac /\ m.B = m.ad + m.bc /\ m.C = m.bd
            /\ \A v \in Samples :
                  m.A * v * v + m.B * v + m.C = (p.a * v + p.b) * (q.a * v + q.b)
C12_Witness ==
    /\ page = "functions" /\ call.fn = "computeFoil"
    /\ call.out.ad # 0 /\ call.out.bc # 0 /\ call.out.B # 0 /\ call.out.A < 0

(***************************************************************************)
(* C13.  For integers num and den with den # 0, Q(num, den) = {n, d} is in *)
(* lowest terms with a positive denominator: d > 0, gcd(|n|, d) = 1 and    *)
(* n * den = num * d.                                                      *)
(***************************************************************************)
C13_QLowestTerms ==
    (page = "functions" /\ call.fn = "Q" /\ call.args[2] # 0) =>
        LET num == call.args[1]
            den == call.args[2]
            n   == call.out.n
            d   == call.out.d
        IN  /\ d > 0
            /\ \A g \in 2..(MaxArg + 1) : ~(AbsInt(n) % g = 0 /\ d % g = 0)
            /\ n * den = num * d
C13_Witness ==
    /\ page = "functions" /\ call.fn = "Q"
    /\ call.args[2] < 0 /\ call.args[1] > 0
    /\ call.out.d > 1 /\ call.out.d < 0 - call.args[2]

(***************************************************************************)
(* C14.  For integers a # 0, b, c the fractions hF and kF returned by      *)
(* getCompletingSteps satisfy a (x - hF)^2 + kF = a x^2 + b x + c at every *)
(* x: hF = -b / (2a) and kF = (4ac - b^2) / (4a).                          *)
(***************************************************************************)
C14_VertexFormEqualsInput ==
    (page = "functions" /\ call.fn = "getCompletingSteps") =>
        LET qa == call.args[1]
            qb == call.args[2]
            qc == call.args[3]
            h  == call.out.hF
            k  == call.out.kF
        IN  /\ h.d > 0 /\ k.d > 0
            /\ h.n * (2 * qa) = (0 - qb) * h.d
            /\ k.n * (4 * qa) = (4 * qa * qc - qb * qb) * k.d
            /\ \A x \in Samples :
                  qa * (x * h.d - h.n) * (x * h.d - h.n) * k.d + k.n * h.d * h.d
                      = (qa * x * x + qb * x + qc) * h.d * h.d * k.d
C14_Witness ==
    /\ page = "functions" /\ call.fn = "getCompletingSteps"
    /\ call.args[1] < 0 /\ call.out.hF.d > 1 /\ call.out.kF.d > 1
    /\ call.out.kF.n # 0


(***************************************************************************)
(* C15.  FOIL visualizer with Play/Pause: after 'Reset animation' the step *)
(* is the first step and playback is off (no interval is left running),    *)
(* while both binomial texts and the speed setting are unchanged.          *)
(***************************************************************************)
C15_ResetAnimationEffect ==
    [][ ResetAnimation
        => ( /\ step' = 0 /\ ~playing' /\ timerRef' = "null"
             /\ bin1' = bin1 /\ bin2' = bin2 /\ speedMs' = speedMs ) ]_vars
C15_Witness ==
    /\ page = "foil" /\ step = 0 /\ ~playing /\ timerRef = "null"
    /\ bin1 # Default1 /\ bin2 # Default2 /\ speedMs # 900


(***************************************************************************)
(* C16.  Graph Studio: after every render a text field carries the         *)
(* 'invalid' mark if and only if parsing its current content does not      *)
(* yield a finite number.                                                  *)
(***************************************************************************)
C16_InvalidMarkIffParseFails ==
    page = "studio" =>
        \A f \in CoefFields \cup RangeFields :
            (f \in invalid) <=> ~parseFraction(inputs[f]).finite


(***************************************************************************)
(* Inequality-region grapher and discriminant explorer: the App            *)
(* components.  A number field hands its handler parseFloat(text) || 0, a  *)
(* slider hands it parseFloat(value).  Numbers are whole numbers here.     *)
(***************************************************************************)
MaxTyped == 2       \* numbers typed or dragged: -MaxTyped..MaxTyped

\* the content of a number field: empty, or the decimal text of a number
EmptyField == [empty |-> TRUE, val |-> 0]
FieldText(k) == [empty |-> FALSE, val |-> k]
TypedNumberTexts == {EmptyField} \cup {FieldText(k) : k \in (0 - MaxTyped)..MaxTyped}
parseFloat(t) == IF t.empty THEN NaN ELSE Finite(t.val)
\* parseFloat(e.target.value) || 0
parseFloatOrZero(t) ==
    IF ~parseFloat(t).finite \/ parseFloat(t).val = 0 THEN 0 ELSE parseFloat(t).val

RG_INEQ_TYPES == {"y <", "y <=", "y >", "y >="}
RG_PRESETS ==
    { [a |-> 1,  b |-> 0, c |-> -4, ineq |-> "y <"],
      [a |-> 1,  b |-> 2, c |-> -3, ineq |-> "y >="],
      [a |-> -1, b |-> 4, c |-> 0,  ineq |-> "y >"],
      [a |-> 2,  b |-> 0, c |-> -8, ineq |-> "y <="],
      [a |-> -1, b |-> 6, c |-> -5, ineq |-> "y <"] }

\* what App returns: the error view when a === 0, the tool otherwise
RG_Rendered ==
    IF app.a = 0 THEN {"HeroSection", "error"}
    ELSE {"HeroSection", "CoefInput a", "CoefInput b", "CoefInput c",
          "ineq-selector", "presets", "GraphSvg", "InfoCard", "ExportFooter"}

ToolFrame == UNCHANGED <<page, step, walkVars, foilVars, studioVars, call>>

RG_onSetA(t) ==
    /\ page = "regions" /\ "CoefInput a" \in RG_Rendered
    /\ app' = [app EXCEPT !.a = parseFloatOrZero(t)]
    /\ ToolFrame
RG_onSetB(t) ==
    /\ page = "regions" /\ "CoefInput b" \in RG_Rendered
    /\ app' = [app EXCEPT !.b = parseFloatOrZero(t)]
    /\ ToolFrame
RG_onSetC(t) ==
    /\ page = "regions" /\ "CoefInput c" \in RG_Rendered
    /\ app' = [app EXCEPT !.c = parseFloatOrZero(t)]
    /\ ToolFrame
RG_onSetIneqType(type) ==
    /\ page = "regions" /\ "ineq-selector" \in RG_Rendered
    /\ app' = [app EXCEPT !.ineqType = type]
    /\ ToolFrame
RG_loadPreset(p) ==
    /\ page = "regions" /\ "presets" \in RG_Rendered
    /\ app' = [a |-> p.a, b |-> p.b, c |-> p.c, ineqType |-> p.ineq]
    /\ ToolFrame

InitRegions ==
    /\ page = "regions"
    /\ step = 0
    /\ WalkNotLoaded /\ FoilNotLoaded /\ StudioNotLoaded
    /\ call = <<>>
    /\ app = [a |-> 1, b |-> 0, c |-> -4, ineqType |-> "y <"]

NextRegions ==
    \/ \E t \in TypedNumberTexts : RG_onSetA(t)
    \/ \E t \in TypedNumberTexts : RG_onSetB(t)
    \/ \E t \in TypedNumberTexts : RG_onSetC(t)
    \/ \E type \in RG_INEQ_TYPES : RG_onSetIneqType(type)
    \/ \E p \in RG_PRESETS : RG_loadPreset(p)

DE_PRESETS ==
    { [a |-> 1,  b |-> -5, c |-> 6],
      [a |-> 1,  b |-> -6, c |-> 9],
      [a |-> 1,  b |-> 0,  c |-> 1],
      [a |-> -1, b |-> 0,  c |-> 4],
      [a |-> 2,  b |-> -4, c |-> 2] }

\* the sliders: a from -3 to 3, b and c from -10 to 10
DE_SliderStops(f) ==
    {v \in (0 - MaxTyped)..MaxTyped :
        IF f = "a" THEN 0 - 3 <= v /\ v <= 3 ELSE 0 - 10 <= v /\ v <= 10}

DE_Rendered ==
    IF app.a = 0 THEN {"HeroSection", "error"}
    ELSE {"HeroSection", "GraphSvg", "ControlPanel", "InfoCard", "ExportFooter"}

\* useEffect(..., [a, b, c]): the URL is rewritten after every render that
\* changed a, b or c, the render of the error view included
DE_urlEffect(s) == [s EXCEPT !.url = [a |-> s.a, b |-> s.b, c |-> s.c]]

DE_onSlider(f, v) ==
    /\ page = "explorer" /\ "ControlPanel" \in DE_Rendered
    /\ app' = DE_urlEffect([app EXCEPT ![f] = parseFloat(FieldText(v)).val])
    /\ ToolFrame
DE_onNumberInput(f, t) ==
    /\ page = "explorer" /\ "ControlPanel" \in DE_Rendered
    /\ app' = DE_urlEffect([app EXCEPT ![f] = parseFloatOrZero(t)])
    /\ ToolFrame
DE_handleLoadPreset(p) ==
    /\ page = "explorer" /\ "ControlPanel" \in DE_Rendered
    /\ app' = DE_urlEffect([app EXCEPT !.a = p.a, !.b = p.b, !.c = p.c])
    /\ ToolFrame

InitExplorer ==
    /\ page = "explorer"
    /\ step = 0
    /\ WalkNotLoaded /\ FoilNotLoaded /\ StudioNotLoaded
    /\ call = <<>>
    /\ app = DE_urlEffect([a |-> 1, b |-> -5, c |-> 6, url |-> <<>>])

NextExplorer ==
    \/ \E f \in {"a", "b", "c"} : \E v \in DE_SliderStops(f) : DE_onSlider(f, v)
    \/ \E f \in {"a", "b", "c"}, t \in TypedNumberTexts : DE_onNumberInput(f, t)
    \/ \E p \in DE_PRESETS : DE_handleLoadPreset(p)

\* a session on either of the two pages
SpecErrorPages == (InitRegions \/ InitExplorer) /\ [][NextRegions \/ NextExplorer]_vars

(***************************************************************************)
(* C17.  Region grapher and discriminant explorer: whenever the            *)
(* 'Coefficient a cannot be zero' error is displayed, a control that       *)
(* changes a is still rendered, and some user input leads to a # 0.        *)
(***************************************************************************)
C17_ErrorStateHasAControl ==
    /\ (page = "regions" /\ "error" \in RG_Rendered)
          => /\ "CoefInput a" \in RG_Rendered
             /\ ENABLED (\E t \in TypedNumberTexts : RG_onSetA(t) /\ app'.a # 0)
    /\ (page = "explorer" /\ "error" \in DE_Rendered)
          => /\ "ControlPanel" \in DE_Rendered
             /\ ENABLED (\E t \in TypedNumberTexts : DE_onNumberInput("a", t) /\ app'.a # 0)


(***************************************************************************)
(* Form converter: the App component.  The state is sourceForm, params,    *)
(* targetForm and the query string of the address (url: the form and the   *)
(* text of every key written so far; searchParams.set never removes a      *)
(* key).  An action is one handler together with the renders and effects   *)
(* that follow it, until no effect has anything left to do.                *)
(***************************************************************************)
MaxParam == 1       \* numbers typed into a parameter field: -MaxParam..MaxParam

FORMS == {"standard", "vertex", "factored"}
FC_PRESETS ==
    { [form |-> "standard", params |-> [a |-> 1,  b |-> -2, c |-> -3]],
      [form |-> "standard", params |-> [a |-> 2,  b |-> 8,  c |-> 6]],
      [form |-> "vertex",   params |-> [a |-> 1,  h |-> 2,  k |-> -4]],
      [form |-> "vertex",   params |-> [a |-> -1, h |-> 3,  k |-> 5]],
      [form |-> "factored", params |-> [a |-> 1,  r1 |-> -1, r2 |-> 3]] }

\* the values the source-form effect and getInitialParams fall back to
FC_defaults(form) ==
    IF form = "standard" THEN [a |-> 1, b |-> -2, c |-> -3]
    ELSE IF form = "vertex" THEN [a |-> 1, h |-> 2, k |-> -4]
    ELSE [a |-> 1, r1 |-> -1, r2 |-> 3]
FC_defaultTarget(form) == IF form = "standard" THEN "vertex" ELSE "standard"

\* urlParams.get(key): the text written for the key, null when there is none
urlGet(u, key) == IF key \in DOMAIN u.text THEN FieldText(u.text[key]) ELSE EmptyField
\* parseFloat(urlParams.get(key)) || fallback
parseFloatOr(t, fallback) ==
    IF ~parseFloat(t).finite \/ parseFloat(t).val = 0 THEN fallback
    ELSE parseFloat(t).val

\* urlParams.get('form') || FORMS.STANDARD
getInitialForm(u) == IF u.form = "null" THEN "standard" ELSE u.form
getInitialParams(u) ==
    LET form == getInitialForm(u)
        d    == FC_defaults(form)
    IN  [key \in DOMAIN d |-> parseFloatOr(urlGet(u, key), d[key])]

\* the URL effect: set 'form', then set every key of params
FC_urlEffect(u, form, ps) ==
    [form |-> form,
     text |-> [key \in DOMAIN u.text \cup DOMAIN ps |->
                  IF key \in DOMAIN ps THEN ps[key] ELSE u.text[key]]]

\* render after sourceForm and params became form and ps (sourceForm was
\* form0 at the previous render; mount runs every effect): the URL effect,
\* then the source-form effect when sourceForm changed, whose setParams and
\* setTargetForm cause one more render and one more run of the URL effect
FC_settle(S, form, ps, tf, formChanged) ==
    LET u1 == FC_urlEffect(S.url, form, ps)
    IN  IF formChanged
        THEN [sourceForm |-> form,
              params     |-> FC_defaults(form),
              targetForm |-> FC_defaultTarget(form),
              url        |-> FC_urlEffect(u1, form, FC_defaults(form))]
        ELSE [sourceForm |-> form, params |-> ps, targetForm |-> tf, url |-> u1]

\* loading the page at the address u
FC_mount(u) ==
    FC_settle([url |-> u], getInitialForm(u), getInitialParams(u),
              FC_defaultTarget(getInitialForm(u)), TRUE)

FC_setSourceForm(form) ==
    /\ page = "converter"
    /\ app' = FC_settle(app, form, app.params, app.targetForm, form # app.sourceForm)
    /\ ToolFrame
FC_setParam(key, t) ==
    /\ page = "converter"
    /\ key \in DOMAIN app.params
    /\ app' = FC_settle(app, app.sourceForm,
                        [app.params EXCEPT ![key] = parseFloatOrZero(t)],
                        app.targetForm, FALSE)
    /\ ToolFrame
FC_setTargetForm(form) ==
    /\ page = "converter"
    /\ form # app.sourceForm
    /\ app' = [app EXCEPT !.targetForm = form]
    /\ ToolFrame
FC_handleLoadPreset(p) ==
    /\ page = "converter"
    /\ app' = FC_settle(app, p.form, p.params, app.targetForm, p.form # app.sourceForm)
    /\ ToolFrame
\* the user reloads the page at the address the app wrote last
FC_Reload ==
    /\ page = "converter"
    /\ app' = FC_mount(app.url)
    /\ ToolFrame

FC_TypedTexts == {EmptyField} \cup {FieldText(k) : k \in (0 - MaxParam)..MaxParam}
FC_Keys == {"a", "b", "c", "h", "k", "r1", "r2"}

InitConverter ==
    /\ page = "converter"
    /\ step = 0
    /\ WalkNotLoaded /\ FoilNotLoaded /\ StudioNotLoaded
    /\ call = <<>>
    /\ app = FC_mount([form |-> "null", text |-> <<>>])

NextConverter ==
    \/ \E form \in FORMS : FC_setSourceForm(form)
    \/ \E key \in FC_Keys, t \in FC_TypedTexts : FC_setParam(key, t)
    \/ \E form \in FORMS : FC_setTargetForm(form)
    \/ \E p \in FC_PRESETS : FC_handleLoadPreset(p)
    \/ FC_Reload

SpecConverter == InitConverter /\ [][NextConverter]_vars

(***************************************************************************)
(* C18.  Form converter: once the effects have settled after a click on a  *)
(* preset, the source form is the preset's form and the parameters are the *)
(* preset's values, for every preset and every earlier source form.        *)
(***************************************************************************)
C18_PresetLoadsPreset ==
    [][ \A p \in FC_PRESETS :
            FC_handleLoadPreset(p)
                => (app'.sourceForm = p.form /\ app'.params = p.params) ]_vars

(***************************************************************************)
(* C19.  Form converter: loading the page at the address the app wrote     *)
(* last yields, once the mount effects have settled, the same source form  *)
(* and the same parameter values.                                          *)
(***************************************************************************)
C19_UrlRoundTrip ==
    [][ FC_Reload
        => (app'.sourceForm = app.sourceForm /\ app'.params = app.params) ]_vars


(***************************************************************************)
(* Graph Studio: what updateEquation writes for a coefficient field, as    *)
(* the number the reader sees (NaN when the text shown is no number).      *)
(***************************************************************************)
\* getDisplayText(value, "0"): the text itself, "0" for an empty field
getDisplayText(t, fallback) == IF t.k = "empty" THEN fallback ELSE t
\* the leading term: sign and absolute text of the raw string
equationLeading(t) == parseFraction(getDisplayText(t, NumText(Fix(0))))
\* formatTermHtml: no term when the text is no finite number or is 0
formatTermHtml(t) ==
    LET parsed == parseFraction(getDisplayText(t, NumText(Fix(0))))
    IN  IF ~parsed.finite \/ parsed.val = 0 THEN Finite(0) ELSE parsed
updateEquation(eq) ==
    [a |-> equationLeading(eq.a), b |-> formatTermHtml(eq.b), c |-> formatTermHtml(eq.c)]

shownEverywhere(co) ==
    /\ canvas.coeffs = co
    /\ ui.stats.coeffs = co
    /\ ui.table = co
    /\ updateEquation(ui.equation) = [a |-> Finite(co.a), b |-> Finite(co.b), c |-> Finite(co.c)]

(***************************************************************************)
(* C20.  Graph Studio: once no further event occurs, the canvas is         *)
(* eventually drawn with exactly the coefficients parsed from the input    *)
(* fields, and the statistics, the equation and the table of values show   *)
(* those same coefficients.                                                *)
(***************************************************************************)
C20_EventuallyShowsParsedCoeffs ==
    <>[](page = "studio" => shownEverywhere(parsedCoeffs))


(***************************************************************************)
(* C21.  Graph Studio: when a coefficient changes while a transition is    *)
(* still running (isAnimating, a frame pending), the transition that       *)
(* starts has as its starting coefficients the coefficients of the frame   *)
(* drawn most recently, those on the canvas.                               *)
(***************************************************************************)
C21_TransitionContinuesFromScreen ==
    [][ ( /\ page = "studio"
          /\ animationState.isAnimating /\ frames.current
          /\ events' = events + 1
          /\ animationState'.targetCoeffs # animationState.targetCoeffs
          /\ animationState'.isAnimating /\ frames'.current )
        => animationState'.startCoeffs = canvas.coeffs ]_vars


C23_AtMostOneFramePending ==
    page = "studio" => (IF frames.current THEN 1 ELSE 0) + frames.orphans <= 1
\* a transition was interrupted by a coefficient change: a new animation
\* is requested (no frame of it has run) and does not start from what the
\* canvas shows
C23_Witness ==
    /\ page = "studio"
    /\ frames.current /\ animationState.isAnimating
    /\ animationState.startTime = 0
    /\ canvas.coeffs # animationState.startCoeffs


(***************************************************************************)
(* C24.  Graph Studio: while the pointer is over the canvas (isHovering,   *)
(* from a mousemove until the next mouseleave) no animation frame is       *)
(* pending and the canvas shows the coefficients the fields hold: the      *)
(* first mousemove cancels a running transition, and a coefficient change  *)
(* made meanwhile is drawn at once.                                        *)
(***************************************************************************)
C24_NoFrameWhileHovering ==
    (page = "studio" /\ hoverState.isHovering)
        => /\ ~frames.current /\ frames.orphans = 0
           /\ canvas.coeffs = parsedCoeffs
\* three events: a coefficient change started a transition, the pointer
\* came over the canvas after a frame of it had run (startTime is set) and
\* cut it short (isAnimating is still set), then a slider was moved
C24_Witness ==
    /\ page = "studio"
    /\ hoverState.isHovering
    /\ animationState.isAnimating /\ animationState.startTime # 0
    /\ lastEvent = "slider" /\ events = 3


(***************************************************************************)
(* C25.  Graph Studio: after every slider, text-field, preset or reset     *)
(* event, the slider of each coefficient holds the number its text field   *)
(* denotes, and that number is the one the graph is drawn for (the target  *)
(* of the transition the event started, or the coefficients drawn at       *)
(* once).                                                                  *)
(***************************************************************************)
C25_SliderAndFieldInSync ==
    (page = "studio" /\ lastEvent \in {"slider", "text", "preset", "reset"})
        => \A f \in CoefFields :
              /\ sliders[f] = parsedCoeffs[f]
              /\ animationState.targetCoeffs[f] = parsedCoeffs[f]


(***************************************************************************)
(* The properties (reveal) app: App keeps the coefficients a, b, c, the    *)
(* set of property ids whose `revealed` entry is true and the set whose    *)
(* `hints` entry is true.  app.events counts the user's events.            *)
(***************************************************************************)
MaxPropEvents == 3

PT_PRESETS ==
    { [a |-> 1,  b |-> -6, c |-> 3],
      [a |-> 1,  b |-> 4,  c |-> -5],
      [a |-> 2,  b |-> -8, c |-> 6],
      [a |-> -1, b |-> 6,  c |-> -8],
      [a |-> 1,  b |-> 0,  c |-> -4] }

\* the ids of getPropertyDefinitions; App's `properties` is [] when a === 0
PT_ids == {"direction", "axis", "vertex", "extremum", "domain", "range", "yIntercept"}
PT_properties == IF app.a = 0 THEN {} ELSE PT_ids

\* App renders PropertiesTable only when a !== 0; a row shows the value when
\* revealed[prop.id], '???' otherwise, and the hint row when hints[prop.id]
PT_tableRendered == app.a # 0
PT_valueShown(id) == PT_tableRendered /\ id \in PT_properties /\ id \in app.revealed
PT_hintOpen(id) == PT_tableRendered /\ id \in PT_properties /\ id \in app.hints

PT_Event ==
    /\ page = "properties" /\ app.events < MaxPropEvents
    /\ ToolFrame

PT_onAChange(t) ==
    /\ PT_Event
    /\ app' = [app EXCEPT !.a = parseFloatOrZero(t), !.events = @ + 1]
PT_onBChange(t) ==
    /\ PT_Event
    /\ app' = [app EXCEPT !.b = parseFloatOrZero(t), !.events = @ + 1]
PT_onCChange(t) ==
    /\ PT_Event
    /\ app' = [app EXCEPT !.c = parseFloatOrZero(t), !.events = @ + 1]
PT_handlePreset(p) ==
    /\ PT_Event
    /\ app' = [app EXCEPT !.a = p.a, !.b = p.b, !.c = p.c,
                          !.revealed = {}, !.hints = {}, !.events = @ + 1]
\* the Reveal button of a row is disabled once the row is revealed
PT_handleReveal(id) ==
    /\ PT_Event
    /\ PT_tableRendered /\ id \in PT_properties /\ id \notin app.revealed
    /\ app' = [app EXCEPT !.revealed = @ \cup {id}, !.events = @ + 1]
PT_handleToggleHint(id) ==
    /\ PT_Event
    /\ PT_tableRendered /\ id \in PT_properties
    /\ app' = [app EXCEPT !.hints = IF id \in @ THEN @ \ {id} ELSE @ \cup {id},
                          !.events = @ + 1]
\* Reveal All is disabled when revealedCount === totalCount
PT_handleRevealAll ==
    /\ PT_Event
    /\ PT_tableRendered /\ Cardinality(app.revealed) # Cardinality(PT_properties)
    /\ app' = [app EXCEPT !.revealed = PT_properties, !.events = @ + 1]

InitProperties ==
    /\ page = "properties"
    /\ step = 0
    /\ WalkNotLoaded /\ FoilNotLoaded /\ StudioNotLoaded
    /\ call = <<>>
    /\ app = [a |-> 1, b |-> -6, c |-> 3, revealed |-> {}, hints |-> {}, events |-> 0]

NextProperties ==
    \/ \E t \in TypedNumberTexts : PT_onAChange(t)
    \/ \E t \in TypedNumberTexts : PT_onBChange(t)
    \/ \E t \in TypedNumberTexts : PT_onCChange(t)
    \/ \E p \in PT_PRESETS : PT_handlePreset(p)
    \/ \E id \in PT_ids : PT_handleReveal(id)
    \/ \E id \in PT_ids : PT_handleToggleHint(id)
    \/ PT_handleRevealAll

SpecProperties == InitProperties /\ [][NextProperties]_vars

(***************************************************************************)
(* C26.  Properties app: whenever a, b or c changes, by a preset or by an  *)
(* edit of a coefficient field, no value is shown afterwards (every value  *)
(* cell reads '???') and no hint is open, so a value that is shown was     *)
(* revealed since the coefficients last changed.                           *)
(***************************************************************************)
C26_ChangeHidesValues ==
    [][ (page = "properties" /\ <<app'.a, app'.b, app'.c>> # <<app.a, app.b, app.c>>)
        => \A id \in PT_ids : ~PT_valueShown(id)' /\ ~PT_hintOpen(id)' ]_vars


(***************************************************************************)
(* The four walkthrough apps: inequality solver, completing the square,    *)
(* FOIL with Play/Pause, FOIL with presets and step dots.                  *)
(***************************************************************************)
SpecWalkthroughs ==
    (InitIneq \/ InitCts \/ InitFoil \/ InitFoil2)
        /\ [][NextIneq \/ NextCts \/ NextFoil \/ NextFoil2]_vars

(***************************************************************************)
(* C27.  In each of the four walkthrough apps the step is an integer in    *)
(* 0..MAX_STEP of that app, whatever Back, Next, step-dot, timer, preset,  *)
(* input and reset events have happened.                                   *)
(***************************************************************************)
C27_StepInRange ==
    /\ page = "inequality" => step \in 0..QI_MAX_STEP
    /\ page = "cts" => step \in 0..CTS_MAX_STEP
    /\ page \in {"foil", "foil2"} => step \in 0..FOIL_MAX_STEP
\* Play was pressed at the last step: the timer runs there
C27_Witness ==
    /\ page = "foil"
    /\ step = FOIL_MAX_STEP /\ playing /\ timerRef = "interval"


(***************************************************************************)
(* C28.  Walkthrough apps: every event that changes the problem (a         *)
(* coefficient, the inequality type, a binomial text, by an edit or by a   *)
(* preset) leaves the walkthrough at step 0, and in the FOIL page with     *)
(* Play/Pause leaves playback off with no timer running.                   *)
(***************************************************************************)
C28_ChangeRestartsWalkthrough ==
    [][ ( /\ page \in {"inequality", "cts", "foil", "foil2"}
          /\ <<a, b, c, ineqType, bin1, bin2>>' # <<a, b, c, ineqType, bin1, bin2>> )
        => ( /\ step' = 0
             /\ page = "foil" => (~playing' /\ timerRef' = "null") ) ]_vars
\* playback is running in the middle of the walkthrough, and a binomial
\* can be edited there
C28_Witness ==
    /\ page = "foil"
    /\ playing /\ timerRef = "interval" /\ step >= 2
    /\ ENABLED (\E t \in TypedTexts : FOIL_setBin1(t) /\ bin1' # bin1)


(***************************************************************************)
(* C29.  FOIL with Play/Pause: whenever the input has a validation error   *)
(* (a binomial that does not parse, or two different variables), the       *)
(* walkthrough is at step 0 and playback is off.                           *)
(***************************************************************************)
C29_ErrorMeansFirstStepAndPaused ==
    (page = "foil" /\ parseError # "null") => (step = 0 /\ ~playing)
\* both binomials parse, with different variables
C29_Witness ==
    /\ page = "foil"
    /\ parseError = "Variables must match"


(***************************************************************************)
(* C30.  Graph Studio: animationState.isAnimating is true exactly when an  *)
(* animation-frame callback is pending, after any sequence of input,       *)
(* hover and animation-frame events.                                       *)
(***************************************************************************)
C30_IsAnimatingIffFramePending ==
    page = "studio" => (animationState.isAnimating <=> frames.current)

====
